---- MODULE Spec2Model ----
(***************************************************************************)
(* go-cache: a coordinator in front of a process-local tier and a shared   *)
(* tier, with single-flight reads and pub/sub eviction between factories.  *)
(* Strings are sequences of one-character strings, so that joining and     *)
(* splitting keys is computed as the code computes it.  Go slices are      *)
(* sequences (Go index i is position i+1); Go maps are functions.          *)
(***************************************************************************)
EXTENDS Integers, Sequences, FiniteSets, TLC

VARIABLES
    shared,     \* the shared tier: cache key -> bytes, for the keys it holds
    local,      \* local[f]: the local tier of factory f, same shape
    configs,    \* configs[f]: prefix -> config of the cache handle of factory f
    factory,    \* factory[f]: which of sharedCache, localCache, pubsub factory f has
    regPkgKey,  \* key.go regPkgKey, the namespace segment of the process
    regKeyOnce, \* key.go regKeyOnce: TRUE once registerKey has run
    usedPrefixs, \* usedPrefixs[f]: the prefixes registered in the process of factory f
    faults,     \* the adapter calls that may return a transport error
    th,         \* th[f][t]: the task t of factory f and the call it is running
    sf,         \* sf[f]: the in-flight table of the handle's singleflight.Group
    inbox,      \* inbox[f]: messages published and not yet read by f's listener
    lis,        \* lis[f]: the listener task of factory f and its last callback
    fills       \* fills[f][cacheKey]: MGetter/getter invocations so far

vars == <<shared, local, configs, factory, regPkgKey, regKeyOnce, usedPrefixs, faults, th, sf, inbox, lis, fills>>

\* ------------------------------------------------------------------ bounds

MaxOps == 3        \* calls one task makes
MaxInbox == 2      \* unread messages one subscription holds
MaxKeys == 3       \* keys of one MGet
MaxFlights == 2    \* calls one of two concurrent tasks makes
MaxFills == 2      \* calls the task makes when fillers and tiers may fail
MaxRegs == 2       \* NewCache calls a task makes
MaxCloses == 2     \* calls a task makes when the factory may be closed
MaxStr == 2        \* characters of a prefix, a key or a package key

\* ------------------------------------------------------------ the universe

Procs == {"F1", "F2"}
Threads == {1, 2}
Pfx == <<"p">>
PfxNotRegistered == <<"q">>     \* a prefix no cache handle knows
KeyOrder == << <<"a">>, <<"b">> >>
UserKeys == {KeyOrder[i] : i \in DOMAIN KeyOrder}
Vals == {7, 12}
Nil == "nil"

Range(s) == {s[i] : i \in DOMAIN s}

RECURSIVE SeqsUpTo(_, _)
SeqsUpTo(S, n) ==
    IF n = 0 THEN {<<>>}
    ELSE LET shorter == SeqsUpTo(S, n - 1)
         IN  shorter \cup {Append(s, x) : s \in {q \in shorter : Len(q) = n - 1}, x \in S}

\* --------------------------------------------------------------- key.go

packageKey == <<"c", "a">>
topicKey == <<"t", "p">>
cacheDelim == <<":">>
topicDelim == <<"#">>

\* strings.Join(components, delimiter)
RECURSIVE customKey(_, _)
customKey(delimiter, components) ==
    IF Len(components) = 0 THEN <<>>
    ELSE IF Len(components) = 1 THEN components[1]
    ELSE components[1] \o delimiter \o customKey(delimiter, Tail(components))

\* getTopic of key.go: no caller in the package
getTopic(topic) == customKey(topicDelim, <<regPkgKey, topicKey, topic>>)

getCacheKey(pfx, key) ==
    IF regPkgKey = <<>>
    THEN customKey(cacheDelim, <<pfx, key>>)
    ELSE customKey(cacheDelim, <<regPkgKey, pfx, key>>)

getCacheKeys(pfx, keys) == [i \in 1..Len(keys) |-> getCacheKey(pfx, keys[i])]

\* strings.Index(s, cacheDelim): the index from 0 of the first delimiter, or -1
Index(s) ==
    IF \E i \in 1..Len(s) : <<s[i]>> = cacheDelim
    THEN (CHOOSE i \in 1..Len(s) : <<s[i]>> = cacheDelim /\ \A j \in 1..(i - 1) : <<s[j]>> # cacheDelim) - 1
    ELSE 0 - 1

\* a parse that takes the first segment for the prefix whatever the package key
getPrefixAndKeyNoPackage(cacheKey) ==
    LET idx == Index(cacheKey)
    IN  IF idx < 0 THEN <<cacheKey, <<>> >>
        ELSE <<SubSeq(cacheKey, 1, idx), SubSeq(cacheKey, idx + 2, Len(cacheKey))>>

getPrefixAndKey(cacheKey) ==
    LET idx == Index(cacheKey)
    IN  IF idx < 0 THEN <<cacheKey, <<>> >>
        ELSE IF regPkgKey = <<>>
             THEN <<SubSeq(cacheKey, 1, idx), SubSeq(cacheKey, idx + 2, Len(cacheKey))>>
             ELSE LET mixedKey == SubSeq(cacheKey, idx + 2, Len(cacheKey))
                      idx2 == Index(mixedKey)
                  IN  IF idx2 < 0 THEN <<mixedKey, <<>> >>
                      ELSE <<SubSeq(mixedKey, 1, idx2), SubSeq(mixedKey, idx2 + 2, Len(mixedKey))>>

\* ------------------------------------------------------------ the codec

Digits == <<"0", "1", "2", "3", "4", "5", "6", "7", "8", "9">>

RECURSIVE IntToStr(_)
IntToStr(n) ==
    IF n < 10 THEN <<Digits[n + 1]>>
    ELSE IntToStr(n \div 10) \o <<Digits[(n % 10) + 1]>>

DigitVal(c) == CHOOSE d \in 0..9 : Digits[d + 1] = c

RECURSIVE StrToInt(_)
StrToInt(b) ==
    IF Len(b) = 1 THEN DigitVal(b[1])
    ELSE 10 * StrToInt(SubSeq(b, 1, Len(b) - 1)) + DigitVal(b[Len(b)])

\* stands for a value json.Marshal rejects, such as math.Inf(1) or a channel
Unsupported == 0 - 1

\* a Marshal that encodes what json rejects as no bytes, without an error
MarshalAll(v) == IF v = Unsupported THEN [b |-> <<>>, err |-> Nil] ELSE [b |-> IntToStr(v), err |-> Nil]

\* json.Marshal: the decimal digits of an integer; an error for a value json
\* does not support
Marshal(v) ==
    IF v = Unsupported THEN [b |-> <<>>, err |-> "errMarshal"]
    ELSE [b |-> IntToStr(v), err |-> Nil]

\* json.Unmarshal into an integer container: fails unless every byte is a
\* digit; out is <<the value>>, or <<>> when the container is left alone
Unmarshal(b) ==
    IF Len(b) > 0 /\ \A i \in 1..Len(b) : b[i] \in Range(Digits)
    THEN [out |-> <<StrToInt(b)>>, err |-> Nil]
    ELSE [out |-> <<>>, err |-> "errUnmarshal"]

\* ------------------------------------------------------------ the tiers

\* a miss that reads as a hit without bytes
NoValueValid == [Valid |-> TRUE, Bytes |-> <<>>]

NoValue == [Valid |-> FALSE, Bytes |-> <<>>]

\* a tier that forgets: its MGet finds no key
AdapterMGetMiss(tier, keys) == [i \in 1..Len(keys) |-> NoValue]

AdapterMGet(tier, keys) ==
    [i \in 1..Len(keys) |->
        IF keys[i] \in DOMAIN tier
        THEN [Valid |-> TRUE, Bytes |-> tier[keys[i]]]
        ELSE NoValue]

\* an MSet that stores nothing
AdapterMSetDropped(tier, keyVals) == tier

AdapterMSet(tier, keyVals) ==
    [k \in (DOMAIN tier) \cup (DOMAIN keyVals) |->
        IF k \in DOMAIN keyVals THEN keyVals[k] ELSE tier[k]]

\* a tier whose Del drops every entry
AdapterDelAll(tier, keys) == [k \in {} |-> tier[k]]

AdapterDel(tier, keys) ==
    [k \in (DOMAIN tier) \ Range(keys) |-> tier[k]]

\* ---------------------------------------------------- event.go: the events

EventTypeNone == "None"
EventTypeEvict == "Evict"
EventTypes == {EventTypeNone, EventTypeEvict}

\* eventType.String(), from the generated enumeration
eventTypeString(x) ==
    IF x = EventTypeEvict THEN <<"E", "v", "i", "c", "t">> ELSE <<"N", "o", "n", "e">>

Topic(x) == customKey(topicDelim, <<packageKey, topicKey, eventTypeString(x)>>)

regTopicEventMap ==
    [tp \in {Topic(typ) : typ \in EventTypes \ {EventTypeNone}} |->
        CHOOSE typ \in EventTypes \ {EventTypeNone} : Topic(typ) = tp]

\* json.Marshal(e.Body) and json.Unmarshal(content, &e.Body): the encoding of a
\* body is tagged, and anything else does not decode
jsonBody(body) == <<"json", body>>
jsonDecodes(content) == Len(content) = 2 /\ content[1] = "json"
jsonBodyOf(content) == content[2]

\* messageBroker.registered
registered(f) == factory[f].pubsub

\* the message messageBroker.send publishes for event e
sendMessage(f, e) ==
    [topic |-> Topic(e.Type),
     content |-> jsonBody([FID |-> f, Keys |-> e.Body.Keys])]

\* Pubsub.Pub: the message reaches every subscription that is open
Pub(mess) ==
    [q \in Procs |-> IF lis[q].state = "subscribed" THEN Append(inbox[q], mess) ELSE inbox[q]]

PubRoom == \A q \in Procs : lis[q].state = "subscribed" => Len(inbox[q]) < MaxInbox

\* Kept for the properties: how many messages were published while the
\* listener of a factory had not subscribed yet, and were lost to it
Missed ==
    [q \in Procs |-> IF lis[q].state = "starting"
                     THEN [lis[q] EXCEPT !.missed = @ + 1] ELSE lis[q]]

\* an Evict that names no key
evictEventNoKeys(keys) == [Type |-> EventTypeEvict, Body |-> [Keys |-> <<>>]]

\* the event cache.evictRemoteKeys sends
evictEvent(keys) == [Type |-> EventTypeEvict, Body |-> [Keys |-> keys]]

\* the keys of a map, as cache.evictRemoteKeyMap collects them (Go leaves the
\* order of a map's keys open; the listener deletes them all in one call, so
\* one order stands for all)
mapKeys(keyM) == SelectSeq(getCacheKeys(Pfx, KeyOrder), LAMBDA k : k \in DOMAIN keyM)

\* ------------------------------------------------ cache.go: pure helpers

\* getKeyIndex: key -> its (last) Go index in keys
getKeyIndex(keys) ==
    [k \in Range(keys) |->
        (CHOOSE i \in 1..Len(keys) : keys[i] = k /\ \A j \in (i + 1)..Len(keys) : keys[j] # k) - 1]

RECURSIVE dedupLoop(_, _, _, _, _)
dedupLoop(params, i, dedupedIdx, m, dedupedKeys) ==
    IF i > Len(params) THEN [idx |-> dedupedIdx, keys |-> dedupedKeys]
    ELSE IF params[i] \in DOMAIN m
         THEN dedupLoop(params, i + 1, dedupedIdx @@ ((i - 1) :> m[params[i]]), m, dedupedKeys)
         ELSE dedupLoop(params, i + 1,
                        dedupedIdx @@ ((i - 1) :> Len(dedupedKeys)),
                        m @@ (params[i] :> Len(dedupedKeys)),
                        Append(dedupedKeys, params[i]))

\* dedup: (internal index map, deduped keys); Go indexes, from 0
dedup(params) ==
    IF Len(params) = 1 THEN [idx |-> (0 :> 0), keys |-> params]
    ELSE dedupLoop(params, 1, <<>>, <<>>, <<>>)

\* a Len that counts the keys after de-duplication
resultLenDeduped(r) == Len(r.vals)

\* result.Len
resultLen(r) == Cardinality(DOMAIN r.internalIdx)

\* result.Get(ctx, idx, container)
resultGet(r, idx) ==
    IF idx < 0 \/ idx >= resultLen(r) THEN [out |-> <<>>, err |-> "ErrResultIndexInvalid"]
    ELSE IF r.errs[r.internalIdx[idx] + 1] # Nil
         THEN [out |-> <<>>, err |-> r.errs[r.internalIdx[idx] + 1]]
         ELSE Unmarshal(r.vals[r.internalIdx[idx] + 1])

\* ------------------------------------------- cache.go: one call, step by step
\* A task runs one call at a time.  Every adapter call, Pub, getter call and
\* singleflight lock is one step; the code between two of them runs with the
\* step before it.

NoCall ==
    [pc |-> "idle", n |-> 0, op |-> Nil, prefix |-> <<>>, keys |-> <<>>, kv |-> <<>>,
     getter |-> Nil, role |-> Nil, sfKey |-> <<>>, IdxM |-> <<>>, dKeys |-> <<>>,
     ckeys |-> <<>>, vals |-> <<>>, miss |-> <<>>, m |-> <<>>, res |-> Nil,
     missKeys |-> <<>>, keyBytes |-> <<>>, val |-> Nil, err |-> Nil, out |-> <<>>,
     log |-> <<>>, lerr |-> FALSE, during |-> {}, prev |-> <<>>, answer |-> Nil,
     given |-> <<>>, rerr |-> Nil, failed |-> {}]

cfgOf(f, s) == configs[f][s.prefix]

Logged(s, in, call) == [s EXCEPT !.log = Append(s.log, <<in, call>>)]

\* kept for the properties: the tier calls of this call that returned an error
Failed(s, in, call) == [s EXCEPT !.failed = @ \cup {<<in, call>>}]

\* the call returns (out, err) to its caller; what it was called with stays
Return(s, out, err) ==
    [NoCall EXCEPT !.n = s.n, !.op = s.op, !.prefix = s.prefix, !.keys = s.keys,
                   !.kv = s.kv, !.getter = s.getter, !.role = s.role, !.sfKey = s.sfKey,
                   !.log = s.log, !.lerr = s.lerr, !.during = s.during, !.prev = s.prev,
                   !.answer = s.answer, !.given = s.given, !.rerr = s.rerr,
                   !.failed = s.failed,
                   !.out = out, !.err = err]

\* a run-time panic (index out of range, failed type assertion): never recovered
Panic(s) == [Return(s, <<>>, "panic") EXCEPT !.pc = "panic"]

Alive(f) == \A t \in Threads : th[f][t].pc # "panic"

\* the code after singleflight.Do returned (val, err): cache.go 73-77 and 84-88
AfterDo(s, val, err) ==
    IF err # Nil THEN Return(s, <<>>, err)
    ELSE IF s.op = "Get"
         THEN IF val.kind = "Result"
              THEN LET g == resultGet(val.v, 0) IN Return(s, g.out, g.err)
              ELSE Panic(s)
         ELSE IF val.kind = "bytes"
              THEN LET u == Unmarshal(val.v) IN Return(s, u.out, u.err)
              ELSE Panic(s)

\* the function given to singleflight.Do returns (val, err)
FnEnd(s, val, err) == [s EXCEPT !.pc = "sfDone", !.val = val, !.err = err]

\* an MGet that reports every failure as a miss
MGetEndAsMiss(s, res, err) ==
    LET e == IF err = Nil THEN Nil ELSE "ErrCacheMiss"
    IN  IF s.op = "Get" THEN [s EXCEPT !.pc = "sfDone", !.val = [kind |-> "Result", v |-> res],
                                       !.err = e]
        ELSE [Return(s, <<>>, e) EXCEPT !.res = res]

\* cache.MGet returns (res, err): to singleflight inside Get, else to the caller
MGetEnd(s, res, err) ==
    IF s.op = "Get" THEN FnEnd(s, [kind |-> "Result", v |-> res], err)
    ELSE [Return(s, <<>>, err) EXCEPT !.res = res]

\* an MGet that returns the error of its refill instead of the Result
AfterRefillSurfaced(s, err) ==
    IF s.op \in {"Set", "MSet"} THEN Return(s, <<>>, err)
    ELSE IF s.op \in {"Get", "MGet"}
         THEN MGetEnd([s EXCEPT !.rerr = err], IF err = Nil THEN s.res ELSE Nil, err)
    ELSE IF err # Nil THEN FnEnd(s, Nil, err)
    ELSE FnEnd(s, [kind |-> "bytes", v |-> s.keyBytes[s.ckeys[1]]], Nil)

\* a GetByFunc that drops the error of its refill as MGet does
AfterRefillDropped(s, err) ==
    IF s.op \in {"Set", "MSet"} THEN Return(s, <<>>, err)
    ELSE IF s.op \in {"Get", "MGet"} THEN MGetEnd([s EXCEPT !.rerr = err], s.res, Nil)
    ELSE FnEnd(s, [kind |-> "bytes", v |-> s.keyBytes[s.ckeys[1]]], Nil)

\* cache.refill returned err: cache.go 66-70, 175-177, 213
AfterRefill(s, err) ==
    IF s.op \in {"Set", "MSet"} THEN Return(s, <<>>, err)
    ELSE IF s.op \in {"Get", "MGet"} THEN MGetEnd([s EXCEPT !.rerr = err], s.res, Nil)
    ELSE IF err # Nil THEN FnEnd(s, Nil, err)
    ELSE FnEnd(s, [kind |-> "bytes", v |-> s.keyBytes[s.ckeys[1]]], Nil)

\* a refill that writes no tier
StartRefillNowhere(f, s, keyBytes) == AfterRefill([s EXCEPT !.keyBytes = keyBytes], Nil)

\* a refill that starts at the local tier
StartRefillLocalFirst(f, s, keyBytes) ==
    LET s1 == [s EXCEPT !.keyBytes = keyBytes]
    IN  IF cfgOf(f, s).local THEN [s1 EXCEPT !.pc = "refillLocal"]
        ELSE IF cfgOf(f, s).shared THEN [s1 EXCEPT !.pc = "refillShared"]
        ELSE AfterRefill(s1, Nil)

\* cache.refill up to its first adapter call
StartRefill(f, s, keyBytes) ==
    LET s1 == [s EXCEPT !.keyBytes = keyBytes]
    IN  IF cfgOf(f, s).shared THEN [s1 EXCEPT !.pc = "refillShared"]
        ELSE IF cfgOf(f, s).local THEN [s1 EXCEPT !.pc = "refillLocal"]
        ELSE AfterRefill(s1, Nil)

\* keys[i] for the positions i of vals that are not valid, in order
missOf(keys, vals) ==
    LET F[i \in 0..Len(vals)] ==
            IF i = 0 THEN <<>>
            ELSE IF ~vals[i].Valid THEN Append(F[i - 1], keys[i]) ELSE F[i - 1]
    IN  F[Len(vals)]

\* an MGet that hands every deduplicated key to MGetter once one key missed
AfterLoadAllKeys(f, s, vals, err) ==
    IF s.op = "GetByFunc"
    THEN IF err # Nil THEN FnEnd(s, Nil, err)
         ELSE IF Len(vals) < 1 THEN Panic(s)
         ELSE IF vals[1].Valid THEN FnEnd(s, [kind |-> "bytes", v |-> vals[1].Bytes], Nil)
         ELSE [s EXCEPT !.pc = "getter"]
    ELSE IF err # Nil THEN MGetEnd(s, Nil, err)
         ELSE IF Len(vals) < Len(s.dKeys) THEN Panic(s)
         ELSE LET res == [internalIdx |-> s.IdxM,
                          vals |-> [i \in 1..Len(s.dKeys) |->
                                       IF vals[i].Valid THEN vals[i].Bytes ELSE <<>>],
                          errs |-> [i \in 1..Len(s.dKeys) |->
                                       IF vals[i].Valid THEN Nil ELSE "ErrCacheMiss"]]
                  missKeys == missOf(s.dKeys, SubSeq(vals, 1, Len(s.dKeys)))
              IN  IF Len(missKeys) = 0 \/ cfgOf(f, s).mGetter = {}
                  THEN MGetEnd(s, res, Nil)
                  ELSE [s EXCEPT !.pc = "mGetter", !.res = res, !.missKeys = s.dKeys]

\* cache.load returned (vals, err): cache.go 41-63 and 119-144
AfterLoad(f, s, vals, err) ==
    IF s.op = "GetByFunc"
    THEN IF err # Nil THEN FnEnd(s, Nil, err)
         ELSE IF Len(vals) < 1 THEN Panic(s)
         ELSE IF vals[1].Valid THEN FnEnd(s, [kind |-> "bytes", v |-> vals[1].Bytes], Nil)
         ELSE [s EXCEPT !.pc = "getter"]
    ELSE IF err # Nil THEN MGetEnd(s, Nil, err)
         ELSE IF Len(vals) < Len(s.dKeys) THEN Panic(s)
         ELSE LET res == [internalIdx |-> s.IdxM,
                          vals |-> [i \in 1..Len(s.dKeys) |->
                                       IF vals[i].Valid THEN vals[i].Bytes ELSE <<>>],
                          errs |-> [i \in 1..Len(s.dKeys) |->
                                       IF vals[i].Valid THEN Nil ELSE "ErrCacheMiss"]]
                  missKeys == missOf(s.dKeys, SubSeq(vals, 1, Len(s.dKeys)))
              IN  IF Len(missKeys) = 0 \/ cfgOf(f, s).mGetter = {}
                  THEN MGetEnd(s, res, Nil)
                  ELSE [s EXCEPT !.pc = "mGetter", !.res = res, !.missKeys = missKeys]

\* cache.load, step 3 up to its adapter call: cache.go 288-308
LoadStep3(f, s) ==
    IF cfgOf(f, s).local
    THEN LET keyIdx == getKeyIndex(s.ckeys)
             m == [k \in {c \in Range(s.ckeys) : s.vals[keyIdx[c] + 1].Valid} |->
                      s.vals[keyIdx[k] + 1].Bytes]
         IN  IF DOMAIN m # {} THEN [s EXCEPT !.pc = "loadFill", !.m = m]
             ELSE AfterLoad(f, s, s.vals, Nil)
    ELSE AfterLoad(f, s, s.vals, Nil)

\* a load that reads the shared tier whatever the local tier returned
AfterLocalReadsShared(f, s) ==
    IF cfgOf(f, s).shared THEN [s EXCEPT !.pc = "loadShared"]
    ELSE IF Len(s.miss) = 0 THEN AfterLoad(f, s, s.vals, Nil)
    ELSE LoadStep3(f, s)

\* cache.load from "no cache missing" to its next adapter call: cache.go 270-286
AfterLocal(f, s) ==
    IF Len(s.miss) = 0 THEN AfterLoad(f, s, s.vals, Nil)
    ELSE IF cfgOf(f, s).shared THEN [s EXCEPT !.pc = "loadShared"]
    ELSE LoadStep3(f, s)

\* cache.load up to its first adapter call: cache.go 250-258
StartLoad(f, s, ckeys) ==
    LET s1 == [s EXCEPT !.ckeys = ckeys,
                        !.vals = [i \in 1..Len(ckeys) |-> NoValue],
                        !.miss = ckeys]
    IN  IF cfgOf(f, s).local THEN [s1 EXCEPT !.pc = "loadLocal"] ELSE AfterLocal(f, s1)

\* an MGet that answers a prefix it does not know with an empty Result
StartMGetAnyPrefix(f, s) ==
    IF s.prefix \notin DOMAIN configs[f] \/ Len(s.keys) = 0
    THEN MGetEnd(s, [internalIdx |-> <<>>, vals |-> <<>>, errs |-> <<>>], Nil)
    ELSE LET d == dedup(s.keys)
         IN  StartLoad(f, [s EXCEPT !.IdxM = d.idx, !.dKeys = d.keys],
                       getCacheKeys(s.prefix, d.keys))

\* cache.MGet up to its first adapter call: cache.go 91-118
StartMGet(f, s) ==
    IF s.prefix \notin DOMAIN configs[f] THEN MGetEnd(s, Nil, "ErrPfxNotRegistered")
    ELSE IF Len(s.keys) = 0
         THEN MGetEnd(s, [internalIdx |-> <<>>, vals |-> <<>>, errs |-> <<>>], Nil)
         ELSE LET d == dedup(s.keys)
              IN  StartLoad(f, [s EXCEPT !.IdxM = d.idx, !.dKeys = d.keys],
                            getCacheKeys(s.prefix, d.keys))

\* a del that starts at the local tier
StartDelLocalFirst(f, s, ckeys) ==
    LET s1 == [s EXCEPT !.ckeys = ckeys]
    IN  IF cfgOf(f, s).local THEN [s1 EXCEPT !.pc = "delLocal"]
        ELSE IF cfgOf(f, s).shared THEN [s1 EXCEPT !.pc = "delShared"]
        ELSE Return(s1, <<>>, Nil)

\* cache.del up to its first adapter call
StartDel(f, s, ckeys) ==
    LET s1 == [s EXCEPT !.ckeys = ckeys]
    IN  IF cfgOf(f, s).shared THEN [s1 EXCEPT !.pc = "delShared"]
        ELSE IF cfgOf(f, s).local THEN [s1 EXCEPT !.pc = "delLocal"]
        ELSE Return(s1, <<>>, Nil)

\* the outcomes an adapter call may have: TRUE is success
Outcomes(call) == IF call \in faults THEN {TRUE, FALSE} ELSE {TRUE}

\* ------------------------------------------------------------ the actions

SetTh(f, t, r) == th' = [th EXCEPT ![f][t] = r]

\* a task calls op(prefix, keys...) or op(prefix, kv); getter is GetByFunc's.
\* Kept for the properties: n, the calls the task has made; during, the tasks
\* of the factory that were inside a call at that moment; prev, the call the
\* task made before, and what it returned
Call(f, t, op, prefix, keys, kv, getter) ==
    /\ Alive(f)
    /\ th[f][t].pc = "idle"
    /\ LET old == th[f][t]
           s == [NoCall EXCEPT !.n = old.n + 1, !.op = op, !.prefix = prefix,
                               !.keys = keys, !.kv = kv, !.getter = getter,
                               !.during = {u \in Threads : th[f][u].pc # "idle"},
                               !.prev = [op |-> old.op, keys |-> old.keys, kv |-> old.kv,
                                         err |-> old.err, out |-> old.out,
                                         res |-> old.res, answer |-> old.answer]]
       IN  SetTh(f, t,
             IF op = "Get"
             THEN [s EXCEPT !.pc = "sfDo", !.sfKey = getCacheKey(prefix, keys[1])]
             ELSE IF op = "MGet" THEN StartMGet(f, s)
             ELSE IF prefix \notin DOMAIN configs[f] THEN Return(s, <<>>, "ErrPfxNotRegistered")
             ELSE IF op = "GetByFunc"
                  THEN [s EXCEPT !.pc = "sfDo", !.sfKey = getCacheKey(prefix, keys[1])]
             ELSE IF op = "Del"
                  THEN IF Len(keys) = 0 THEN Return(s, <<>>, Nil)
                       ELSE StartDel(f, s, getCacheKeys(prefix, keys))
             ELSE IF \E k \in DOMAIN kv : Marshal(kv[k]).err # Nil
                  THEN Return(s, <<>>, "errMarshal")
             ELSE StartRefill(f, s, [c \in {getCacheKey(prefix, k) : k \in DOMAIN kv} |->
                        Marshal(kv[CHOOSE k \in DOMAIN kv : getCacheKey(prefix, k) = c]).b]))
    /\ UNCHANGED <<shared, local, configs, factory, regPkgKey, regKeyOnce, usedPrefixs, faults, sf, inbox, lis, fills>>

\* a Do that never joins a call in flight
SfDoAlone(f, t) ==
    LET s == th[f][t]
    IN  /\ Alive(f)
        /\ s.pc = "sfDo"
        /\ sf' = [sf EXCEPT ![f] = [k \in (DOMAIN sf[f]) \cup {s.sfKey} |-> t]]
        /\ LET s1 == [s EXCEPT !.role = "leader"]
           IN  SetTh(f, t, IF s.op = "Get" THEN StartMGet(f, s1)
                           ELSE StartLoad(f, s1, <<s.sfKey>>))
        /\ UNCHANGED <<shared, local, configs, factory, regPkgKey, regKeyOnce, usedPrefixs, faults, inbox, lis, fills>>

\* singleflight.Do: join the call in flight for the key, or run the function
SfDo(f, t) ==
    LET s == th[f][t]
    IN  /\ Alive(f)
        /\ s.pc = "sfDo"
        /\ IF s.sfKey \in DOMAIN sf[f]
           THEN /\ SetTh(f, t, [s EXCEPT !.pc = "sfWait", !.role = "follower"])
                /\ sf' = sf
           ELSE /\ sf' = [sf EXCEPT ![f] = sf[f] @@ (s.sfKey :> t)]
                /\ LET s1 == [s EXCEPT !.role = "leader"]
                   IN  SetTh(f, t, IF s.op = "Get" THEN StartMGet(f, s1)
                                   ELSE StartLoad(f, s1, <<s.sfKey>>))
        /\ UNCHANGED <<shared, local, configs, factory, regPkgKey, regKeyOnce, usedPrefixs, faults, inbox, lis, fills>>

\* the function given to Do has returned: the call leaves the table and the
\* leader and every task waiting on it get (val, err)
SfDone(f, t) ==
    LET s == th[f][t]
    IN  /\ Alive(f)
        /\ s.pc = "sfDone"
        /\ sf' = [sf EXCEPT ![f] = [k \in (DOMAIN sf[f]) \ {s.sfKey} |-> sf[f][k]]]
        /\ th' = [th EXCEPT ![f] = [u \in Threads |->
                    IF u = t \/ (th[f][u].pc = "sfWait" /\ th[f][u].sfKey = s.sfKey)
                    THEN AfterDo(th[f][u], s.val, s.err)
                    ELSE th[f][u]]]
        /\ UNCHANGED <<shared, local, configs, factory, regPkgKey, regKeyOnce, usedPrefixs, faults, inbox, lis, fills>>

\* cache.load 1: cfg.local.MGet; an error is dropped, with whatever slice the
\* adapter returned beside it: nil, or one invalid Value per key
LoadLocal(f, t) ==
    LET s == th[f][t]
    IN  /\ Alive(f)
        /\ s.pc = "loadLocal"
        /\ \E o \in (IF "local.MGet" \in faults THEN {"ok", "nil", "invalid"} ELSE {"ok"}) :
             LET vals == IF o = "ok" THEN AdapterMGet(local[f], s.ckeys)
                         ELSE IF o = "nil" THEN <<>>
                         ELSE [i \in 1..Len(s.ckeys) |-> NoValue]
                 s1 == [Logged(s, "load", "local.MGet") EXCEPT
                            !.vals = vals, !.miss = missOf(s.ckeys, vals),
                            !.lerr = (o # "ok")]
             IN  SetTh(f, t, AfterLocal(f, s1))
        /\ UNCHANGED <<shared, local, configs, factory, regPkgKey, regKeyOnce, usedPrefixs, faults, sf, inbox, lis, fills>>

\* cache.load 2: cfg.shared.MGet of the keys the local tier missed
LoadShared(f, t) ==
    LET s == th[f][t]
        s0 == Logged(s, "load", "shared.MGet")
    IN  /\ Alive(f)
        /\ s.pc = "loadShared"
        /\ \E ok \in Outcomes("shared.MGet") :
             IF ok
             THEN LET missVals == AdapterMGet(shared, s.miss)
                      keyIdx == getKeyIndex(s.ckeys)
                      vals == [i \in 1..Len(s.vals) |->
                                 IF \E j \in 1..Len(s.miss) : keyIdx[s.miss[j]] + 1 = i
                                 THEN missVals[CHOOSE j \in 1..Len(s.miss) :
                                                   keyIdx[s.miss[j]] + 1 = i]
                                 ELSE s.vals[i]]
                  IN  SetTh(f, t, LoadStep3(f, [s0 EXCEPT !.vals = vals]))
             ELSE SetTh(f, t, AfterLoad(f, Failed(s0, "load", "shared.MGet"), <<>>, "errShared"))
        /\ UNCHANGED <<shared, local, configs, factory, regPkgKey, regKeyOnce, usedPrefixs, faults, sf, inbox, lis, fills>>

\* cache.load 3: cfg.local.MSet of the valid values; its error is dropped
LoadFill(f, t) ==
    LET s == th[f][t]
        s0 == Logged(s, "load", "local.MSet")
    IN  /\ Alive(f)
        /\ s.pc = "loadFill"
        /\ \E ok \in Outcomes("local.MSet") :
             LET s1 == IF ok THEN s0 ELSE Failed(s0, "load", "local.MSet")
             IN  /\ local' = [local EXCEPT ![f] = IF ok THEN AdapterMSet(local[f], s.m) ELSE @]
                 /\ SetTh(f, t, IF registered(f) THEN [s1 EXCEPT !.pc = "loadEvict"]
                                ELSE AfterLoad(f, s1, s.vals, Nil))
        /\ UNCHANGED <<shared, configs, factory, regPkgKey, regKeyOnce, usedPrefixs, faults, sf, inbox, lis, fills>>

\* cache.load 3: evictRemoteKeyMap of the keys just written
LoadEvict(f, t) ==
    LET s == th[f][t]
    IN  /\ Alive(f)
        /\ s.pc = "loadEvict"
        /\ PubRoom
        /\ inbox' = Pub(sendMessage(f, evictEvent(mapKeys(s.m))))
        /\ SetTh(f, t, AfterLoad(f, Logged(s, "load", "Pub"), s.vals, Nil))
        /\ lis' = Missed
        /\ UNCHANGED <<shared, local, configs, factory, regPkgKey, regKeyOnce, usedPrefixs, faults, sf, fills>>

Bump(count, k) == IF k \in DOMAIN count THEN [count EXCEPT ![k] = @ + 1] ELSE count @@ (k :> 1)

RECURSIVE BumpAll(_, _)
BumpAll(count, keys) ==
    IF Len(keys) = 0 THEN count ELSE BumpAll(Bump(count, keys[1]), Tail(keys))

\* cache.MGet 2: cfg.mGetter(missKeys...), then the marshalling of what it
\* returned: cache.go 146-175.  cfg.mGetter is the set of ways the user's
\* function may answer ({} when the prefix has none): "err", "notSlice",
\* "badLen", "ok" with any values json encodes, "any" with values json may
\* reject as well.  Kept for the properties: answer, the way it answered
MGetter(f, t) ==
    LET s == th[f][t]
        keyIdx == getKeyIndex(s.dKeys)
    IN  /\ Alive(f)
        /\ s.pc = "mGetter"
        /\ fills' = [fills EXCEPT ![f] = BumpAll(@, getCacheKeys(s.prefix, s.missKeys))]
        /\ \E kind \in cfgOf(f, s).mGetter :
           \E vs \in [1..Len(s.missKeys) -> IF kind = "any" THEN Vals \cup {Unsupported} ELSE Vals] :
             LET s0 == [Logged(s, "MGet", "mGetter") EXCEPT !.answer = kind] IN
             SetTh(f, t,
               IF kind = "err" THEN MGetEnd(s0, Nil, "errMGetter")
               ELSE IF kind = "notSlice" THEN MGetEnd(s0, Nil, "ErrMGetterResponseNotSlice")
               ELSE IF kind = "badLen" THEN MGetEnd(s0, Nil, "ErrMGetterResponseLengthInvalid")
               ELSE LET b(i) == Marshal(vs[i])
                        good == {i \in 1..Len(s.missKeys) : b(i).err = Nil}
                        at(j) == CHOOSE i \in 1..Len(s.missKeys) : keyIdx[s.missKeys[i]] + 1 = j
                        hit(j) == \E i \in 1..Len(s.missKeys) : keyIdx[s.missKeys[i]] + 1 = j
                        m == [c \in {getCacheKey(s.prefix, s.missKeys[i]) : i \in good} |->
                                 b(CHOOSE i \in good : getCacheKey(s.prefix, s.missKeys[i]) = c).b]
                        res == [s.res EXCEPT
                                  !.vals = [j \in 1..Len(s.dKeys) |->
                                              IF hit(j) /\ at(j) \in good THEN b(at(j)).b ELSE @[j]],
                                  !.errs = [j \in 1..Len(s.dKeys) |->
                                              IF hit(j) THEN b(at(j)).err ELSE @[j]]]
                        given == [k \in Range(s.missKeys) |->
                                    vs[CHOOSE i \in 1..Len(s.missKeys) : s.missKeys[i] = k]]
                    IN  StartRefill(f, [s0 EXCEPT !.res = res, !.given = given], m))
        /\ UNCHANGED <<shared, local, configs, factory, regPkgKey, regKeyOnce, usedPrefixs, faults, sf, inbox, lis>>

\* a GetByFunc that returns what getter gave without refilling the tiers
GetterUnwritten(f, t) ==
    LET s == th[f][t]
        s0 == Logged(s, "GetByFunc", "getter")
    IN  /\ Alive(f)
        /\ s.pc = "getter"
        /\ fills' = [fills EXCEPT ![f] = Bump(@, s.ckeys[1])]
        /\ SetTh(f, t,
             IF s.getter.err # Nil THEN FnEnd(s0, Nil, s.getter.err)
             ELSE FnEnd(s0, [kind |-> "bytes", v |-> Marshal(s.getter.val).b], Nil))
        /\ UNCHANGED <<shared, local, configs, factory, regPkgKey, regKeyOnce, usedPrefixs, faults, sf, inbox, lis>>

\* cache.GetByFunc: getter(), then cfg.marshal: cache.go 54-66
Getter(f, t) ==
    LET s == th[f][t]
        s0 == Logged(s, "GetByFunc", "getter")
    IN  /\ Alive(f)
        /\ s.pc = "getter"
        /\ fills' = [fills EXCEPT ![f] = Bump(@, s.ckeys[1])]
        /\ SetTh(f, t,
             IF s.getter.err # Nil THEN FnEnd(s0, Nil, s.getter.err)
             ELSE LET b == Marshal(s.getter.val)
                  IN  IF b.err # Nil THEN FnEnd(s0, Nil, b.err)
                      ELSE StartRefill(f, s0, (s.ckeys[1] :> b.b)))
        /\ UNCHANGED <<shared, local, configs, factory, regPkgKey, regKeyOnce, usedPrefixs, faults, sf, inbox, lis>>

\* cache.refill: cfg.shared.MSet; its error ends the refill
RefillShared(f, t) ==
    LET s == th[f][t]
        s0 == Logged(s, "refill", "shared.MSet")
    IN  /\ Alive(f)
        /\ s.pc = "refillShared"
        /\ \E ok \in Outcomes("shared.MSet") :
             IF ok
             THEN /\ shared' = AdapterMSet(shared, s.keyBytes)
                  /\ SetTh(f, t, IF cfgOf(f, s).local THEN [s0 EXCEPT !.pc = "refillLocal"]
                                 ELSE AfterRefill(s0, Nil))
             ELSE /\ shared' = shared
                  /\ SetTh(f, t, AfterRefill(Failed(s0, "refill", "shared.MSet"), "errShared"))
        /\ UNCHANGED <<local, configs, factory, regPkgKey, regKeyOnce, usedPrefixs, faults, sf, inbox, lis, fills>>

\* cache.refill: cfg.local.MSet; on its error refill returns nil at once
RefillLocal(f, t) ==
    LET s == th[f][t]
        s0 == Logged(s, "refill", "local.MSet")
    IN  /\ Alive(f)
        /\ s.pc = "refillLocal"
        /\ \E ok \in Outcomes("local.MSet") :
             IF ok
             THEN /\ local' = [local EXCEPT ![f] = AdapterMSet(@, s.keyBytes)]
                  /\ SetTh(f, t, IF registered(f) THEN [s0 EXCEPT !.pc = "refillEvict"]
                                 ELSE AfterRefill(s0, Nil))
             ELSE /\ local' = local
                  /\ SetTh(f, t, AfterRefill(Failed(s0, "refill", "local.MSet"), Nil))
        /\ UNCHANGED <<shared, configs, factory, regPkgKey, regKeyOnce, usedPrefixs, faults, sf, inbox, lis, fills>>

\* cache.refill: evictRemoteKeyMap(keyBytes)
RefillEvict(f, t) ==
    LET s == th[f][t]
    IN  /\ Alive(f)
        /\ s.pc = "refillEvict"
        /\ PubRoom
        /\ inbox' = Pub(sendMessage(f, evictEvent(mapKeys(s.keyBytes))))
        /\ SetTh(f, t, AfterRefill(Logged(s, "refill", "Pub"), Nil))
        /\ lis' = Missed
        /\ UNCHANGED <<shared, local, configs, factory, regPkgKey, regKeyOnce, usedPrefixs, faults, sf, fills>>

\* a del that goes on to the local tier after the shared tier failed
DelSharedGoesOn(f, t) ==
    LET s == th[f][t]
        s0 == Logged(s, "del", "shared.Del")
    IN  /\ Alive(f)
        /\ s.pc = "delShared"
        /\ \E ok \in Outcomes("shared.Del") :
             /\ shared' = IF ok THEN AdapterDel(shared, s.ckeys) ELSE shared
             /\ SetTh(f, t, [(IF ok THEN s0 ELSE Failed(s0, "del", "shared.Del")) EXCEPT
                                !.pc = "delLocal"])
        /\ UNCHANGED <<local, configs, factory, regPkgKey, regKeyOnce, usedPrefixs, faults, sf, inbox, lis, fills>>

\* cache.del: cfg.shared.Del; its error ends the delete
DelShared(f, t) ==
    LET s == th[f][t]
        s0 == Logged(s, "del", "shared.Del")
    IN  /\ Alive(f)
        /\ s.pc = "delShared"
        /\ \E ok \in Outcomes("shared.Del") :
             IF ok
             THEN /\ shared' = AdapterDel(shared, s.ckeys)
                  /\ SetTh(f, t, IF cfgOf(f, s).local THEN [s0 EXCEPT !.pc = "delLocal"]
                                 ELSE Return(s0, <<>>, Nil))
             ELSE /\ shared' = shared
                  /\ SetTh(f, t, Return(Failed(s0, "del", "shared.Del"), <<>>, "errShared"))
        /\ UNCHANGED <<local, configs, factory, regPkgKey, regKeyOnce, usedPrefixs, faults, sf, inbox, lis, fills>>

\* a del that swallows the error of the local tier and publishes the Evict
DelLocalSwallowed(f, t) ==
    LET s == th[f][t]
        s0 == Logged(s, "del", "local.Del")
    IN  /\ Alive(f)
        /\ s.pc = "delLocal"
        /\ \E ok \in Outcomes("local.Del") :
             LET s1 == IF ok THEN s0 ELSE Failed(s0, "del", "local.Del")
             IN  /\ local' = [local EXCEPT ![f] = IF ok THEN AdapterDel(@, s.ckeys) ELSE @]
                 /\ SetTh(f, t, IF registered(f) THEN [s1 EXCEPT !.pc = "delEvict"]
                                ELSE Return(s1, <<>>, Nil))
        /\ UNCHANGED <<shared, configs, factory, regPkgKey, regKeyOnce, usedPrefixs, faults, sf, inbox, lis, fills>>

\* cache.del: cfg.local.Del; its error ends the delete
DelLocal(f, t) ==
    LET s == th[f][t]
        s0 == Logged(s, "del", "local.Del")
    IN  /\ Alive(f)
        /\ s.pc = "delLocal"
        /\ \E ok \in Outcomes("local.Del") :
             IF ok
             THEN /\ local' = [local EXCEPT ![f] = AdapterDel(@, s.ckeys)]
                  /\ SetTh(f, t, IF registered(f) THEN [s0 EXCEPT !.pc = "delEvict"]
                                 ELSE Return(s0, <<>>, Nil))
             ELSE /\ local' = local
                  /\ SetTh(f, t, Return(Failed(s0, "del", "local.Del"), <<>>, "errLocal"))
        /\ UNCHANGED <<shared, configs, factory, regPkgKey, regKeyOnce, usedPrefixs, faults, sf, inbox, lis, fills>>

\* cache.del: evictRemoteKeys(keys...)
DelEvict(f, t) ==
    LET s == th[f][t]
    IN  /\ Alive(f)
        /\ s.pc = "delEvict"
        /\ PubRoom
        /\ inbox' = Pub(sendMessage(f, evictEvent(s.ckeys)))
        /\ SetTh(f, t, Return(Logged(s, "del", "Pub"), <<>>, Nil))
        /\ lis' = Missed
        /\ UNCHANGED <<shared, local, configs, factory, regPkgKey, regKeyOnce, usedPrefixs, faults, sf, fills>>

\* ------------------------------------------------------------ the listener

errSelfEvent == "errSelfEvent"

\* the nil *event the callback gets with some errors
NoEvent == [Type |-> EventTypeNone, Body |-> [FID |-> "", Keys |-> <<>>]]

\* a listener that does not tell its own events from its peers'
listenCallbackNoSelf(f, mess) ==
    IF mess.topic \notin DOMAIN regTopicEventMap
    THEN [e |-> NoEvent, err |-> "no such topic registered"]
    ELSE IF ~jsonDecodes(mess.content) THEN [e |-> NoEvent, err |-> "errDecode"]
    ELSE [e |-> [Type |-> regTopicEventMap[mess.topic], Body |-> jsonBodyOf(mess.content)],
          err |-> Nil]

\* a listener that takes every message for an Evict, whatever its topic
listenCallbackTopicUnchecked(f, mess) ==
    IF ~jsonDecodes(mess.content) THEN [e |-> NoEvent, err |-> "errDecode"]
    ELSE LET e == [Type |-> EventTypeEvict, Body |-> jsonBodyOf(mess.content)]
         IN  IF e.Body.FID = f THEN [e |-> e, err |-> errSelfEvent]
             ELSE [e |-> e, err |-> Nil]

\* messageBroker.listen, the body of its loop: the arguments of the callback
listenCallback(f, mess) ==
    IF mess.topic \notin DOMAIN regTopicEventMap
    THEN [e |-> NoEvent, err |-> "no such topic registered"]
    ELSE IF ~jsonDecodes(mess.content) THEN [e |-> NoEvent, err |-> "errDecode"]
    ELSE LET e == [Type |-> regTopicEventMap[mess.topic], Body |-> jsonBodyOf(mess.content)]
         IN  IF e.Body.FID = f THEN [e |-> e, err |-> errSelfEvent]
             ELSE [e |-> e, err |-> Nil]

\* the factory's handler of subscribed events: on an Evict that is no error,
\* localCache.Del(e.Body.Keys...); the local tier it leaves
subscribedEventsHandler(f, e, err) ==
    IF err = Nil /\ e.Type = EventTypeEvict THEN AdapterDel(local[f], e.Body.Keys)
    ELSE local[f]

\* the listener task reaches pubsub.Sub
Subscribe(f) ==
    /\ lis[f].state = "starting"
    /\ lis' = [lis EXCEPT ![f].state = "subscribed"]
    /\ UNCHANGED <<shared, local, configs, factory, regPkgKey, regKeyOnce, usedPrefixs, faults, th, sf, inbox, fills>>

\* the listener task reads one message and calls the handler.  Kept for the
\* properties: peer, the Evicts of other factories handled so far, and calls,
\* the calls of the handler so far
Listen(f) ==
    /\ Alive(f)
    /\ lis[f].state \in {"subscribed", "closing"}
    /\ Len(inbox[f]) > 0
    /\ LET cb == listenCallback(f, Head(inbox[f]))
       IN  /\ local' = [local EXCEPT ![f] = subscribedEventsHandler(f, cb.e, cb.err)]
           /\ lis' = [lis EXCEPT ![f].cb = cb,
                                  ![f].calls = @ + 1,
                                  ![f].peer = IF cb.err = Nil /\ cb.e.Type = EventTypeEvict
                                              THEN @ + 1 ELSE @]
    /\ inbox' = [inbox EXCEPT ![f] = Tail(@)]
    /\ UNCHANGED <<shared, configs, factory, regPkgKey, regKeyOnce, usedPrefixs, faults, th, sf, fills>>

\* --------------------------------------------------------- the start states

Both == [shared |-> TRUE, local |-> TRUE]
SharedOnly == [shared |-> TRUE, local |-> FALSE]
LocalOnly == [shared |-> FALSE, local |-> TRUE]

\* The state after NewFactory(shared, local, options) and NewCache of one
\* prefix in every factory of Facts: the tiers hold nothing, no call is
\* running, and the listener of a factory with a pub/sub is about to subscribe.
InitOf(Facts, Binds, Pubsubs, MGetters, Faults) ==
    /\ regPkgKey = packageKey
    /\ regKeyOnce = FALSE
    /\ usedPrefixs = [f \in Procs |-> {Pfx}]
    /\ shared = <<>>
    /\ local = [f \in Procs |-> <<>>]
    /\ \E b \in Binds, g \in MGetters :
         configs = [f \in Procs |-> (Pfx :> [shared |-> b.shared, local |-> b.local, mGetter |-> g])]
    /\ \E ps \in Pubsubs :
         /\ factory = [f \in Procs |-> [sharedCache |-> TRUE, localCache |-> TRUE, pubsub |-> ps,
                                         closeOnce |-> "new", closes |-> 0]]
         /\ lis = [f \in Procs |-> [state |-> IF ps /\ f \in Facts THEN "starting" ELSE "none",
                                     cb |-> [e |-> NoEvent, err |-> Nil],
                                     peer |-> 0, missed |-> 0, stops |-> 0, calls |-> 0]]
    /\ faults = Faults
    /\ th = [f \in Procs |-> [t \in Threads |-> NoCall]]
    /\ sf = [f \in Procs |-> <<>>]
    /\ inbox = [f \in Procs |-> <<>>]
    /\ fills = [f \in Procs |-> <<>>]

Getters == {[val |-> v, err |-> Nil] : v \in Vals} \cup {[val |-> 0, err |-> "errGetter"]}

\* ------------------------------------------------- one factory, one task
\* Set, Get and Del of two keys, one call after the other, for every binding
\* of the prefix, with and without a pub/sub and an MGetter.

CallOne ==
    /\ th["F1"][1].n < MaxOps
    /\ \/ \E k \in UserKeys : Call("F1", 1, "Get", Pfx, <<k>>, <<>>, Nil)
       \/ \E k \in UserKeys, v \in Vals : Call("F1", 1, "Set", Pfx, <<>>, (k :> v), Nil)
       \/ Call("F1", 1, "Del", Pfx, <<KeyOrder[1]>>, <<>>, Nil)

InitOne == InitOf({"F1"}, {Both, SharedOnly, LocalOnly}, {FALSE, TRUE}, {{}, {"ok"}}, {})

StepsOne ==
    \/ SfDo("F1", 1)
    \/ SfDone("F1", 1)
    \/ LoadLocal("F1", 1)
    \/ LoadShared("F1", 1)
    \/ MGetter("F1", 1)
    \/ RefillShared("F1", 1)
    \/ RefillLocal("F1", 1)
    \/ RefillEvict("F1", 1)
    \/ DelShared("F1", 1)
    \/ DelLocal("F1", 1)
    \/ DelEvict("F1", 1)

NextOne == CallOne \/ StepsOne \/ Subscribe("F1") \/ Listen("F1")

SpecOne == InitOne /\ [][NextOne]_vars

\* C1: a Get that follows a successful Set of the same key by the same task of
\* the only factory, with no call in between, returns the value set and no
\* error, whichever tiers the prefix binds.
SetThenGet ==
    LET s == th["F1"][1]
    IN  (/\ s.pc = "idle"
         /\ s.op = "Get"
         /\ s.prev.op = "Set"
         /\ s.prev.err = Nil
         /\ s.keys[1] \in DOMAIN s.prev.kv)
        => (s.err = Nil /\ s.out = <<s.prev.kv[s.keys[1]]>>)

\* a Get has returned after a Set of its key that replaced another value
SetThenGetSeen ==
    LET s == th["F1"][1]
    IN  /\ s.pc = "idle"
        /\ s.op = "Get"
        /\ s.n = MaxOps
        /\ s.prev.op = "Set"
        /\ s.prev.err = Nil
        /\ s.keys[1] \in DOMAIN s.prev.kv
        /\ s.out = <<12>>
        /\ configs["F1"][Pfx].local
        /\ ~configs["F1"][Pfx].shared

\* C5: the listener of a factory ignores the Evict the factory itself sent:
\* every event it has been handed is a self-event, and once a successful Set
\* has returned and every message has been delivered, the local tier still
\* holds, for every key set, the bytes the Set wrote.
SelfEvictIgnored ==
    LET s == th["F1"][1]
    IN  /\ lis["F1"].cb.e # NoEvent => lis["F1"].cb.err = errSelfEvent
        /\ (/\ s.pc = "idle"
            /\ s.op = "Set"
            /\ s.err = Nil
            /\ configs["F1"][Pfx].local
            /\ registered("F1")
            /\ inbox["F1"] = <<>>)
           => \A k \in DOMAIN s.kv :
                /\ getCacheKey(Pfx, k) \in DOMAIN local["F1"]
                /\ local["F1"][getCacheKey(Pfx, k)] = Marshal(s.kv[k]).b

\* the first Set has returned and the listener has been handed its Evict
SelfEvictDelivered ==
    LET s == th["F1"][1]
    IN  /\ s.pc = "idle"
        /\ s.op = "Set"
        /\ s.n = 1
        /\ s.err = Nil
        /\ configs["F1"][Pfx].local
        /\ inbox["F1"] = <<>>
        /\ lis["F1"].cb.err = errSelfEvent
        /\ lis["F1"].cb.e.Type = EventTypeEvict
        /\ lis["F1"].cb.e.Body.Keys = <<getCacheKey(Pfx, CHOOSE k \in DOMAIN s.kv : TRUE)>>
        /\ \A k \in DOMAIN s.kv : getCacheKey(Pfx, k) \in DOMAIN local["F1"]

\* ------------------------------------------------ one factory, two tasks
\* Two tasks of one factory read the same key at the same time, through Get
\* (filled by the MGetter) and through GetByFunc (filled by its getter); the
\* MGetter and the getter may fail.

CallFlight(t) ==
    /\ th["F1"][t].n < MaxFlights
    /\ \/ Call("F1", t, "Get", Pfx, <<KeyOrder[1]>>, <<>>, Nil)
       \/ \E g \in Getters : Call("F1", t, "GetByFunc", Pfx, <<KeyOrder[1]>>, <<>>, g)

InitFlight == InitOf({"F1"}, {Both}, {FALSE}, {{"ok", "err"}}, {})

StepsFlight(t) ==
    \/ SfDo("F1", t)
    \/ SfDone("F1", t)
    \/ LoadLocal("F1", t)
    \/ LoadShared("F1", t)
    \/ MGetter("F1", t)
    \/ Getter("F1", t)
    \/ RefillShared("F1", t)
    \/ RefillLocal("F1", t)

NextFlight == \E t \in Threads : CallFlight(t) \/ StepsFlight(t)

SpecFlight == InitFlight /\ [][NextFlight]_vars

\* the task is inside the function it gave to singleflight.Do
InFill(f, t) ==
    th[f][t].pc \in {"loadLocal", "loadShared", "loadFill", "loadEvict", "mGetter", "getter",
                     "refillShared", "refillLocal", "refillEvict", "sfDone"}

\* the first call of every task of F1 has returned
FirstCallsDone == \A t \in Threads : th["F1"][t].pc = "idle" /\ th["F1"][t].n = 1

\* how often the filler of the key was invoked in F1
fillsOf(ck) == IF ck \in DOMAIN fills["F1"] THEN fills["F1"][ck] ELSE 0

\* C2, as the code has it: at no time are two tasks of the factory inside the
\* fill of the same fully-qualified key, through Get or GetByFunc; and when
\* the concurrent first reads of an absent key all return without an error,
\* the filler was invoked exactly once for them all.
OneFillInFlight ==
    /\ \A t, u \in Threads :
         (t # u /\ InFill("F1", t) /\ InFill("F1", u)) => th["F1"][t].sfKey # th["F1"][u].sfKey
    /\ (FirstCallsDone /\ \A t \in Threads : th["F1"][t].err = Nil)
         => fillsOf(getCacheKey(Pfx, KeyOrder[1])) = 1

\* the second task joined the Get of the first, and both got the value
OneFillShared ==
    /\ FirstCallsDone
    /\ \A t \in Threads : th["F1"][t].op = "Get" /\ th["F1"][t].err = Nil
    /\ th["F1"][1].role = "leader"
    /\ th["F1"][2].role = "follower"
    /\ th["F1"][2].out = th["F1"][1].out
    /\ fillsOf(getCacheKey(Pfx, KeyOrder[1])) = 1

\* C2, as stated: concurrent Gets of a key absent in both tiers invoke the
\* filler exactly once.
ConcurrentGetsFillOnce ==
    (/\ FirstCallsDone
     /\ \A t \in Threads : th["F1"][t].op = "Get"
     /\ \E t \in Threads : th["F1"][t].during # {})
    => fillsOf(getCacheKey(Pfx, KeyOrder[1])) = 1

\* C3, as stated: when the function given to singleflight.Do returns, every
\* task that joined the call returns what the leader returns, value and
\* error, and has run no tier call and no getter of its own.
FollowersShareOutcome ==
    [][\A t, u \in Threads :
          (/\ th["F1"][t].pc = "sfDone"
           /\ th["F1"][u].pc = "sfWait"
           /\ th["F1"][u].sfKey = th["F1"][t].sfKey
           /\ th'["F1"][t].pc # "sfDone")
          => (/\ th'["F1"][u].err = th'["F1"][t].err
              /\ th'["F1"][u].out = th'["F1"][t].out
              /\ th'["F1"][u].log = <<>>)]_vars

\* --------------------------------------------------- MGet of a list of keys
\* One task sets the first key, reads lists of up to MaxKeys keys, duplicates
\* allowed, and gets the second key, with and without an MGetter.

CallMGet ==
    /\ th["F1"][1].n < MaxOps
    /\ \/ \E v \in Vals : Call("F1", 1, "Set", Pfx, <<>>, (KeyOrder[1] :> v), Nil)
       \/ \E keys \in SeqsUpTo(UserKeys, MaxKeys) : Call("F1", 1, "MGet", Pfx, keys, <<>>, Nil)
       \/ Call("F1", 1, "Get", Pfx, <<KeyOrder[2]>>, <<>>, Nil)

InitMGet == InitOf({"F1"}, {Both, SharedOnly, LocalOnly}, {FALSE}, {{}, {"ok"}}, {})

StepsMGet ==
    \/ SfDo("F1", 1)
    \/ SfDone("F1", 1)
    \/ LoadLocal("F1", 1)
    \/ LoadShared("F1", 1)
    \/ MGetter("F1", 1)
    \/ RefillShared("F1", 1)
    \/ RefillLocal("F1", 1)

NextMGet == CallMGet \/ StepsMGet

SpecMGet == InitMGet /\ [][NextMGet]_vars

\* what the tiers bound to the prefix hold for the user key: the value
\* decoded, or ErrCacheMiss
Cached(k) ==
    LET ck == getCacheKey(Pfx, k)
    IN  IF configs["F1"][Pfx].shared /\ ck \in DOMAIN shared THEN Unmarshal(shared[ck])
        ELSE IF configs["F1"][Pfx].local /\ ck \in DOMAIN local["F1"]
             THEN Unmarshal(local["F1"][ck])
             ELSE [out |-> <<>>, err |-> "ErrCacheMiss"]

\* the position (from 0) of the first occurrence of keys[i + 1] among the
\* first occurrences of keys
FirstPos(keys, i) ==
    Cardinality({keys[j] : j \in {j \in 1..Len(keys) :
                                    \E h \in 1..(i + 1) : keys[h] = keys[i + 1] /\ j < h
                                        /\ \A g \in 1..(h - 1) : keys[g] # keys[i + 1]}})

InSomeTier(k) ==
    \/ configs["F1"][Pfx].shared /\ getCacheKey(Pfx, k) \in DOMAIN shared
    \/ configs["F1"][Pfx].local /\ getCacheKey(Pfx, k) \in DOMAIN local["F1"]

FillLists ==
    {<<KeyOrder[1]>>, <<KeyOrder[2]>>, <<KeyOrder[1], KeyOrder[2]>>,
     <<KeyOrder[2], KeyOrder[1], KeyOrder[2]>>}

CallFill ==
    /\ th["F1"][1].n < MaxFills
    /\ \/ \E v \in Vals : Call("F1", 1, "Set", Pfx, <<>>, (KeyOrder[1] :> v), Nil)
       \/ \E keys \in FillLists : Call("F1", 1, "MGet", Pfx, keys, <<>>, Nil)
       \/ Call("F1", 1, "Get", Pfx, <<KeyOrder[2]>>, <<>>, Nil)

InitFill ==
    \E F \in {{}, {"shared.MSet"}} :
        InitOf({"F1"}, {Both, SharedOnly, LocalOnly}, {FALSE},
               {{"any", "err", "notSlice", "badLen"}}, F)

StepsFill ==
    \/ SfDo("F1", 1)
    \/ SfDone("F1", 1)
    \/ LoadLocal("F1", 1)
    \/ LoadShared("F1", 1)
    \/ MGetter("F1", 1)
    \/ RefillShared("F1", 1)
    \/ RefillLocal("F1", 1)

NextFill == CallFill \/ StepsFill

SpecFill == InitFill /\ [][NextFill]_vars

\* ------------------------------------------- two factories, one pub/sub
\* F1 writes and deletes a key while F2 reads it.  Both bind the prefix to
\* the shared and the local tier, without an MGetter, and listen on the same
\* pub/sub.

CallPeers ==
    \/ /\ th["F1"][1].n < MaxFlights
       /\ \/ \E v \in Vals : Call("F1", 1, "Set", Pfx, <<>>, (KeyOrder[1] :> v), Nil)
          \/ Call("F1", 1, "Del", Pfx, <<KeyOrder[1]>>, <<>>, Nil)
    \/ /\ th["F2"][1].n < MaxFlights
       /\ Call("F2", 1, "Get", Pfx, <<KeyOrder[1]>>, <<>>, Nil)

InitPeers == InitOf(Procs, {Both}, {TRUE}, {{}}, {})

StepsPeers ==
    \/ SfDo("F2", 1)
    \/ SfDone("F2", 1)
    \/ LoadLocal("F2", 1)
    \/ LoadShared("F2", 1)
    \/ LoadFill("F2", 1)
    \/ LoadEvict("F2", 1)
    \/ RefillShared("F1", 1)
    \/ RefillLocal("F1", 1)
    \/ RefillEvict("F1", 1)
    \/ DelShared("F1", 1)
    \/ DelLocal("F1", 1)
    \/ DelEvict("F1", 1)

NextPeers == CallPeers \/ StepsPeers \/ \E f \in Procs : Subscribe(f) \/ Listen(f)

SpecPeers == InitPeers /\ [][NextPeers]_vars

\* no call is in flight, every Evict published reached every listener and
\* has been handled, and F1 has written or deleted the key
Quiescent ==
    /\ \A f \in Procs, t \in Threads : th[f][t].pc = "idle"
    /\ \A f \in Procs : inbox[f] = <<>> /\ lis[f].missed = 0
    /\ th["F1"][1].n > 0
    /\ th["F1"][1].err = Nil

\* C6, as stated: at quiescence no local tier holds for the key a value
\* other than the one the shared tier holds for it.
PeersConsistent ==
    Quiescent =>
        \A f \in Procs, k \in UserKeys :
            getCacheKey(Pfx, k) \in DOMAIN local[f]
            => /\ getCacheKey(Pfx, k) \in DOMAIN shared
               /\ local[f][getCacheKey(Pfx, k)] = shared[getCacheKey(Pfx, k)]

\* the tasks inside a call and the listeners do not all stop while one of
\* them has a step to take; as every task makes a bounded number of calls,
\* every listener then gets to read what its subscription holds
SpecPeersFair ==
    SpecPeers /\ WF_vars(StepsPeers \/ \E f \in Procs : Subscribe(f) \/ Listen(f))

\* the j-th Set or Del of F1 has returned
F1Returned(j) == th["F1"][1].pc = "idle" /\ th["F1"][1].n = j

CallsIn(s, fn) ==
    LET es == SelectSeq(s.log, LAMBDA e : e[1] = fn)
    IN  [i \in 1..Len(es) |-> es[i][2]]

IsPrefix(a, b) == Len(a) <= Len(b) /\ \A i \in 1..Len(a) : a[i] = b[i]

BothWithPubSub(f) == configs[f][Pfx].shared /\ configs[f][Pfx].local /\ registered(f)

\* C7: a refill on a prefix bound to both tiers, of a Set or of the miss-fill
\* of a Get, makes its calls in the order shared MSet, local MSet, Pub of the
\* Evict, each begun when the one before has returned: when the local tier is
\* written the shared tier holds the new bytes, and when the Evict is published
\* both tiers hold them and the Evict names the keys.
RefillOrder ==
    [][LET s == th["F1"][1]
           s2 == th'["F1"][1]
           calls == CallsIn(s2, "refill")
       IN  (BothWithPubSub("F1") /\ s2.n = s.n /\ calls # CallsIn(s, "refill"))
           => /\ Len(calls) = Len(CallsIn(s, "refill")) + 1
              /\ IsPrefix(calls, <<"shared.MSet", "local.MSet", "Pub">>)
              /\ \A ck \in DOMAIN s.keyBytes :
                   /\ ck \in DOMAIN shared' /\ shared'[ck] = s.keyBytes[ck]
                   /\ Len(calls) >= 2 =>
                        ck \in DOMAIN local'["F1"] /\ local'["F1"][ck] = s.keyBytes[ck]
              /\ Len(calls) >= 2 => shared' = shared
              /\ Len(calls) = 3 =>
                   /\ local' = local
                   /\ lis["F1"].state = "subscribed" =>
                        /\ Len(inbox'["F1"]) = Len(inbox["F1"]) + 1
                        /\ listenCallback("F2", inbox'["F1"][Len(inbox'["F1"])]).e
                             = [Type |-> EventTypeEvict,
                                Body |-> [FID |-> "F1", Keys |-> mapKeys(s.keyBytes)]]]_vars

\* a Get has missed, filled the key from the MGetter and refilled both tiers
RefillOrderSeen ==
    LET s == th["F1"][1]
    IN  /\ s.pc = "idle"
        /\ s.op = "Get"
        /\ s.err = Nil
        /\ BothWithPubSub("F1")
        /\ CallsIn(s, "MGet") = <<"mGetter">>
        /\ CallsIn(s, "refill") = <<"shared.MSet", "local.MSet", "Pub">>
        /\ Len(inbox["F1"]) > 0

\* C8: a Del on a prefix bound to both tiers makes its calls in the order
\* shared Del, local Del, Pub of the Evict, each begun when the one before has
\* returned: when the local tier is deleted from, the shared tier is without
\* the keys, and when the Evict is published both tiers are.
DelOrder ==
    [][LET s == th["F1"][1]
           s2 == th'["F1"][1]
           calls == CallsIn(s2, "del")
       IN  (BothWithPubSub("F1") /\ s2.n = s.n /\ calls # CallsIn(s, "del"))
           => /\ Len(calls) = Len(CallsIn(s, "del")) + 1
              /\ IsPrefix(calls, <<"shared.Del", "local.Del", "Pub">>)
              /\ \A i \in 1..Len(s.ckeys) :
                   /\ s.ckeys[i] \notin DOMAIN shared'
                   /\ Len(calls) >= 2 => s.ckeys[i] \notin DOMAIN local'["F1"]
              /\ Len(calls) >= 2 => shared' = shared
              /\ Len(calls) = 3 =>
                   /\ local' = local
                   /\ lis["F1"].state = "subscribed" =>
                        /\ Len(inbox'["F1"]) = Len(inbox["F1"]) + 1
                        /\ listenCallback("F2", inbox'["F1"][Len(inbox'["F1"])]).e
                             = [Type |-> EventTypeEvict,
                                Body |-> [FID |-> "F1", Keys |-> s.ckeys]]]_vars

\* a Del of a key that was set has returned and its Evict is published
DelOrderSeen ==
    LET s == th["F1"][1]
    IN  /\ s.pc = "idle"
        /\ s.op = "Del"
        /\ s.err = Nil
        /\ s.prev.op = "Set"
        /\ BothWithPubSub("F1")
        /\ CallsIn(s, "del") = <<"shared.Del", "local.Del", "Pub">>
        /\ Len(inbox["F1"]) > 0

\* ------------------------------------------ a local tier whose MGet may fail
\* One task sets and reads a key on a prefix bound to both tiers; the MGet of
\* the local adapter may return an error, with a nil slice (as the MGet of
\* the Redis adapter does) or with one invalid Value per key.

CallLocalFault ==
    /\ th["F1"][1].n < MaxOps
    /\ \/ \E v \in Vals : Call("F1", 1, "Set", Pfx, <<>>, (KeyOrder[1] :> v), Nil)
       \/ Call("F1", 1, "Get", Pfx, <<KeyOrder[1]>>, <<>>, Nil)
       \/ Call("F1", 1, "MGet", Pfx, <<KeyOrder[1]>>, <<>>, Nil)
       \/ \E g \in Getters : Call("F1", 1, "GetByFunc", Pfx, <<KeyOrder[1]>>, <<>>, g)

InitLocalFault == InitOf({"F1"}, {Both}, {FALSE}, {{}}, {"local.MGet"})

StepsLocalFault ==
    \/ SfDo("F1", 1)
    \/ SfDone("F1", 1)
    \/ LoadLocal("F1", 1)
    \/ LoadShared("F1", 1)
    \/ LoadFill("F1", 1)
    \/ Getter("F1", 1)
    \/ RefillShared("F1", 1)
    \/ RefillLocal("F1", 1)

NextLocalFault == CallLocalFault \/ StepsLocalFault

SpecLocalFault == InitLocalFault /\ [][NextLocalFault]_vars

\* C9, as stated: a read during which the MGet of the local tier returned an
\* error, of a key the shared tier holds, returns without an error and without
\* a crash, with the value of the shared tier.
LocalErrorIsMiss ==
    LET s == th["F1"][1]
        ck == getCacheKey(Pfx, KeyOrder[1])
    IN  (/\ s.pc \in {"idle", "panic"}
         /\ s.op \in {"Get", "MGet", "GetByFunc"}
         /\ s.lerr
         /\ ck \in DOMAIN shared)
        => /\ s.pc = "idle"
           /\ s.err = Nil
           /\ IF s.op = "MGet" THEN resultGet(s.res, 0) = Unmarshal(shared[ck])
              ELSE s.out = Unmarshal(shared[ck]).out

\* ------------------------------------------------- the answers of MGetter

\* the error MGet returns for a bad answer of MGetter
FillerError(answer) ==
    IF answer = "err" THEN "errMGetter"
    ELSE IF answer = "notSlice" THEN "ErrMGetterResponseNotSlice"
    ELSE "ErrMGetterResponseLengthInvalid"

BadAnswers == {"err", "notSlice", "badLen"}

AllTiersHold(k, v) ==
    LET ck == getCacheKey(Pfx, k)
    IN  /\ configs["F1"][Pfx].shared => (ck \in DOMAIN shared /\ shared[ck] = Marshal(v).b)
        /\ configs["F1"][Pfx].local =>
             (ck \in DOMAIN local["F1"] /\ local["F1"][ck] = Marshal(v).b)

RepeatsFilledMGet(s) ==
    /\ s.pc = "idle"
    /\ s.op = "MGet"
    /\ s.prev.op = "MGet"
    /\ s.prev.keys = s.keys
    /\ s.prev.answer = "ok"
    /\ s.prev.err = Nil

\* C15: an MGet that follows an MGet of the same keys which MGetter filled
\* returns the values of the first at every position, without invoking
\* MGetter (no key was fetched twice) and with one tier call: the MGet of the
\* local tier, or of the shared tier when the prefix has no local tier.
SecondMGetFromCache ==
    LET s == th["F1"][1]
    IN  RepeatsFilledMGet(s)
        => /\ s.err = Nil
           /\ s.answer = Nil
           /\ s.log = << <<"load", IF configs["F1"][Pfx].local THEN "local.MGet"
                                   ELSE "shared.MGet">> >>
           /\ \A i \in 1..Len(s.keys) :
                /\ resultGet(s.res, i - 1).err = Nil
                /\ resultGet(s.res, i - 1) = resultGet(s.prev.res, i - 1)
                /\ getCacheKey(Pfx, s.keys[i]) \in DOMAIN fills["F1"]
                     => fills["F1"][getCacheKey(Pfx, s.keys[i])] = 1

\* the second MGet of key a has returned the value the first got from MGetter
SecondMGetSeen ==
    LET s == th["F1"][1]
    IN  /\ RepeatsFilledMGet(s)
        /\ s.keys = <<KeyOrder[1]>>
        /\ s.n = 2
        /\ resultGet(s.res, 0).out = <<12>>
        /\ s.log = << <<"load", "local.MGet">> >>
        /\ fills["F1"] = (getCacheKey(Pfx, KeyOrder[1]) :> 1)

\* the results r and q are equal: same length, and the same value or error at
\* every position
SameResult(r, q) ==
    /\ resultLen(r) = resultLen(q)
    /\ \A idx \in 0..(resultLen(r) - 1) : resultGet(r, idx) = resultGet(q, idx)

RepeatedMissSeen ==
    LET s == th["F1"][1]
    IN  /\ s.pc = "idle"
        /\ s.op = "MGet"
        /\ s.prev.op = "MGet"
        /\ s.keys = <<KeyOrder[1], KeyOrder[2]>>
        /\ s.prev.keys = s.keys
        /\ configs["F1"][Pfx].mGetter = {}
        /\ resultGet(s.res, 0).err = Nil
        /\ resultGet(s.res, 1).err = "ErrCacheMiss"
        /\ SameResult(s.prev.res, s.res)

\* ------------------------------------------------------- GetByFunc alone
\* One task sets, deletes and reads key a through GetByFunc on a prefix bound
\* to both tiers, to the shared tier or to the local tier; the getter returns
\* a value or an error; no tier fails and there is no pub/sub.

CallFunc ==
    /\ th["F1"][1].n < MaxOps
    /\ \/ \E v \in Vals : Call("F1", 1, "Set", Pfx, <<>>, (KeyOrder[1] :> v), Nil)
       \/ Call("F1", 1, "Del", Pfx, <<KeyOrder[1]>>, <<>>, Nil)
       \/ \E g \in Getters : Call("F1", 1, "GetByFunc", Pfx, <<KeyOrder[1]>>, <<>>, g)

InitFunc == InitOf({"F1"}, {Both, SharedOnly, LocalOnly}, {FALSE}, {{}}, {})

StepsFunc ==
    \/ SfDo("F1", 1)
    \/ SfDone("F1", 1)
    \/ LoadLocal("F1", 1)
    \/ LoadShared("F1", 1)
    \/ Getter("F1", 1)
    \/ RefillShared("F1", 1)
    \/ RefillLocal("F1", 1)
    \/ DelShared("F1", 1)
    \/ DelLocal("F1", 1)

NextFunc == CallFunc \/ StepsFunc

SpecFunc == InitFunc /\ [][NextFunc]_vars

\* C16: GetByFunc invokes getter only when the key is in no bound tier, and
\* at most once; a GetByFunc that did not invoke it returns the cached value
\* with a nil error; one that did returns the value of getter with a nil
\* error, and every bound tier holds its bytes under the cache key, or returns
\* the error of getter, and no tier holds the key.
GetByFuncAside ==
    LET s == th["F1"][1]
        k == KeyOrder[1]
    IN  /\ s.pc = "getter" => ~InSomeTier(k)
        /\ (s.pc = "idle" /\ s.op = "GetByFunc")
           => IF CallsIn(s, "GetByFunc") = <<>>
              THEN /\ InSomeTier(k)
                   /\ s.err = Nil
                   /\ s.out = Cached(k).out
                   /\ Len(s.out) = 1
                   /\ CallsIn(s, "refill") = <<>>
              ELSE /\ CallsIn(s, "GetByFunc") = <<"getter">>
                   /\ IF s.getter.err = Nil
                      THEN /\ s.err = Nil
                           /\ s.out = <<s.getter.val>>
                           /\ AllTiersHold(k, s.getter.val)
                      ELSE /\ s.err = s.getter.err
                           /\ s.out = <<>>
                           /\ CallsIn(s, "refill") = <<>>
                           /\ ~InSomeTier(k)

\* a GetByFunc has filled both tiers with the value of its getter after a
\* GetByFunc whose getter failed
GetByFuncFilled ==
    LET s == th["F1"][1]
    IN  /\ s.pc = "idle"
        /\ s.op = "GetByFunc"
        /\ s.getter = [val |-> 12, err |-> Nil]
        /\ s.out = <<12>>
        /\ CallsIn(s, "GetByFunc") = <<"getter">>
        /\ CallsIn(s, "refill") = <<"shared.MSet", "local.MSet">>
        /\ AllTiersHold(KeyOrder[1], 12)
        /\ s.prev.op = "GetByFunc"
        /\ s.prev.err = "errGetter"

\* a GetByFunc has returned the value that was set, without its getter
GetByFuncHit ==
    LET s == th["F1"][1]
    IN  /\ s.pc = "idle"
        /\ s.op = "GetByFunc"
        /\ s.prev.op = "Set"
        /\ s.getter.err = Nil
        /\ s.out # <<s.getter.val>>
        /\ Len(s.out) = 1
        /\ CallsIn(s, "GetByFunc") = <<>>

\* ------------------------------------------------- a prefix not registered
\* One task sets key a under the registered prefix and calls every entry
\* point with a prefix the handle does not know; the prefix registered is
\* bound to both tiers, with or without pub/sub.

CallUnreg ==
    /\ th["F1"][1].n < MaxOps
    /\ \/ \E v \in Vals : Call("F1", 1, "Set", Pfx, <<>>, (KeyOrder[1] :> v), Nil)
       \/ Call("F1", 1, "Get", PfxNotRegistered, <<KeyOrder[1]>>, <<>>, Nil)
       \/ Call("F1", 1, "MGet", PfxNotRegistered, KeyOrder, <<>>, Nil)
       \/ \E g \in Getters : Call("F1", 1, "GetByFunc", PfxNotRegistered, <<KeyOrder[1]>>, <<>>, g)
       \/ \E v \in Vals : Call("F1", 1, "Set", PfxNotRegistered, <<>>, (KeyOrder[1] :> v), Nil)
       \/ \E v \in Vals : Call("F1", 1, "MSet", PfxNotRegistered, <<>>,
                               (KeyOrder[1] :> v) @@ (KeyOrder[2] :> v), Nil)
       \/ Call("F1", 1, "Del", PfxNotRegistered, <<KeyOrder[1]>>, <<>>, Nil)

InitUnreg == InitOf({"F1"}, {Both}, {FALSE, TRUE}, {{"ok"}}, {})

StepsUnreg ==
    \/ SfDo("F1", 1)
    \/ SfDone("F1", 1)
    \/ RefillShared("F1", 1)
    \/ RefillLocal("F1", 1)
    \/ RefillEvict("F1", 1)

NextUnreg == CallUnreg \/ StepsUnreg \/ Subscribe("F1") \/ Listen("F1")

SpecUnreg == InitUnreg /\ [][NextUnreg]_vars

\* C18: a Get, MGet, GetByFunc, Set, MSet or Del with a prefix the handle
\* does not know returns ErrPfxNotRegistered and nothing else, having made no
\* tier call, getter call or publication; no step of such a call changes a
\* tier, the count of fetches or the messages in flight.
UnknownPrefixRejected ==
    /\ [](LET s == th["F1"][1]
          IN  /\ s.pc # "panic"
              /\ s.prefix = PfxNotRegistered
                 => /\ s.log = <<>>
                    /\ s.out = <<>>
                    /\ s.answer = Nil
                    /\ s.pc = "idle" => (s.err = "ErrPfxNotRegistered" /\ s.res = Nil))
    /\ [][(th'["F1"][1] # th["F1"][1] /\ th'["F1"][1].prefix = PfxNotRegistered)
          => /\ shared' = shared
             /\ local' = local
             /\ inbox' = inbox
             /\ fills' = fills]_vars

\* after a Set under the registered prefix, a Get and a Del with the unknown
\* prefix have been rejected and the tiers still hold what was set
UnknownPrefixSeen ==
    LET s == th["F1"][1]
    IN  /\ s.pc = "idle"
        /\ s.n = 3
        /\ s.op = "Del"
        /\ s.prefix = PfxNotRegistered
        /\ s.err = "ErrPfxNotRegistered"
        /\ s.prev.op = "Get"
        /\ s.prev.err = "ErrPfxNotRegistered"
        /\ AllTiersHold(KeyOrder[1], 7)
        /\ fills["F1"] = <<>>

\* --------------------------------------------------- the prefix registry
\* factory.NewCache walks its settings: a prefix found in usedPrefixs aborts
\* the call with the "duplicated prefix" panic (recovered by the caller, as
\* the tests do), any other is added to usedPrefixs and to the configs m of
\* the handle.  The lookup (factory.go 78) and the insertion (81) are two
\* statements on a package-level map that no lock guards: tasks inside
\* NewCache at the same time race on it, and the Go runtime may end the
\* process with "concurrent map writes".  Settings are otherwise valid: no
\* empty prefix, a tier for each, both codec functions or none.

\* NewCache(settings), settings given by their prefixes
CallNewCache(f, t, settings) ==
    /\ Alive(f)
    /\ th[f][t].pc = "idle"
    /\ LET old == th[f][t]
       IN  SetTh(f, t, [NoCall EXCEPT !.n = old.n + 1, !.op = "NewCache", !.keys = settings,
                                      !.pc = "ncCheck",
                                      !.during = {u \in Threads : th[f][u].pc # "idle"},
                                      !.prev = [op |-> old.op, keys |-> old.keys, kv |-> old.kv,
                                                err |-> old.err, out |-> old.out,
                                                res |-> old.res, answer |-> old.answer]])
    /\ UNCHANGED <<shared, local, configs, factory, regPkgKey, regKeyOnce, usedPrefixs, faults, sf, inbox,
                   lis, fills>>

\* the setting the loop of NewCache is at
settingOf(s) == s.keys[Len(s.out) + 1]

\* if _, ok := usedPrefixs[setting.Prefix]; ok { panic("duplicated prefix") }
NcCheck(f, t) ==
    LET s == th[f][t]
    IN  /\ Alive(f)
        /\ s.pc = "ncCheck"
        /\ SetTh(f, t, IF settingOf(s) \in usedPrefixs[f]
                       THEN Return(s, <<>>, "duplicated prefix")
                       ELSE [s EXCEPT !.pc = "ncInsert"])
        /\ UNCHANGED <<shared, local, configs, factory, regPkgKey, regKeyOnce, usedPrefixs, faults, sf,
                       inbox, lis, fills>>

\* the tasks of f other than t that are inside the loop of NewCache
Racing(f, t) == {u \in Threads \ {t} : th[f][u].pc \in {"ncCheck", "ncInsert"}}

\* usedPrefixs[setting.Prefix] = struct{}{}, then m[setting.Prefix] = cfg and
\* the next setting, or the handle; with another task in the loop the write
\* races, and the runtime may also stop the process
NcInsert(f, t) ==
    LET s == th[f][t]
        m == Append(s.out, settingOf(s))
    IN  /\ Alive(f)
        /\ s.pc = "ncInsert"
        /\ \/ /\ usedPrefixs' = [usedPrefixs EXCEPT ![f] = @ \cup {settingOf(s)}]
              /\ SetTh(f, t, IF Len(m) = Len(s.keys) THEN Return(s, m, Nil)
                             ELSE [s EXCEPT !.out = m, !.pc = "ncCheck"])
           \/ /\ Racing(f, t) # {}
              /\ usedPrefixs' = usedPrefixs
              /\ th' = [th EXCEPT ![f] = [u \in Threads |->
                                            [Panic(th[f][u]) EXCEPT !.err = "concurrent map writes"]]]
        /\ UNCHANGED <<shared, local, configs, factory, regPkgKey, regKeyOnce, faults, sf, inbox, lis, fills>>

\* ClearPrefix(), the hook the tests call between two tests: it empties the
\* registry
ClearPrefix(f) ==
    /\ Alive(f)
    /\ \A t \in Threads : th[f][t].pc = "idle"
    /\ usedPrefixs[f] # {}
    /\ usedPrefixs' = [usedPrefixs EXCEPT ![f] = {}]
    /\ UNCHANGED <<shared, local, configs, factory, regPkgKey, regKeyOnce, faults, th, sf, inbox, lis, fills>>

\* the settings lists: the prefix the factory registered at construction, a
\* new one, a list with the same prefix twice, and a list of both
RegLists ==
    {<<Pfx>>, <<PfxNotRegistered>>, <<PfxNotRegistered, PfxNotRegistered>>,
     <<PfxNotRegistered, Pfx>>}

CallRegistry(t) ==
    /\ th["F1"][t].n < MaxRegs
    /\ \E settings \in RegLists : CallNewCache("F1", t, settings)

InitRegistry == InitOf({"F1"}, {Both}, {FALSE}, {{}}, {})

StepsRegistry(t) == NcCheck("F1", t) \/ NcInsert("F1", t)

NextRegistry ==
    \/ \E t \in Threads : CallRegistry(t) \/ StepsRegistry(t)
    \/ ClearPrefix("F1")

SpecRegistry == InitRegistry /\ [][NextRegistry]_vars

\* C19, as stated: NewCache registers a prefix only when the registry does not
\* hold it, so that between two ClearPrefix no prefix is registered twice; a
\* NewCache that meets a prefix the registry holds aborts with "duplicated
\* prefix" at that setting.
PrefixRegisteredOnce ==
    /\ [](\A t \in Threads :
            LET s == th["F1"][t]
            IN  (s.pc = "idle" /\ s.op = "NewCache")
                => (s.err = Nil \/ s.err = "duplicated prefix"))
    /\ [][\A t \in Threads :
            LET s == th["F1"][t]
            IN  (s.pc = "ncInsert" /\ th'["F1"][t].pc # "ncInsert")
                => settingOf(s) \notin usedPrefixs["F1"]]_vars

\* the registry with one task: NewCache calls that never overlap
NextRegistryAlone == CallRegistry(1) \/ StepsRegistry(1) \/ ClearPrefix("F1")

SpecRegistryAlone == InitRegistry /\ [][NextRegistryAlone]_vars

\* a NewCache of a new prefix given twice has aborted at the second setting,
\* and the registry holds the prefix
DuplicateInListSeen ==
    LET s == th["F1"][1]
    IN  /\ s.pc = "idle"
        /\ s.op = "NewCache"
        /\ s.keys = <<PfxNotRegistered, PfxNotRegistered>>
        /\ s.err = "duplicated prefix"
        /\ usedPrefixs["F1"] = {Pfx, PfxNotRegistered}

\* ------------------------------------------------------ closing the factory
\* Factory.Close() runs the close of the message broker inside closeOnce.Do.
\* sync.Once lets the first caller run the function and makes every other
\* caller wait until it has returned.  factory[f].closes counts the calls of
\* pubsub.Close, lis[f].stops the ends of the listener's loop.

CallClose(f, t) ==
    /\ Alive(f)
    /\ th[f][t].pc = "idle"
    /\ LET old == th[f][t]
       IN  SetTh(f, t, [NoCall EXCEPT !.n = old.n + 1, !.op = "Close", !.pc = "onceDo",
                                      !.during = {u \in Threads : th[f][u].pc # "idle"},
                                      !.prev = [op |-> old.op, keys |-> old.keys, kv |-> old.kv,
                                                err |-> old.err, out |-> old.out,
                                                res |-> old.res, answer |-> old.answer]])
    /\ UNCHANGED <<shared, local, configs, factory, regPkgKey, regKeyOnce, usedPrefixs, faults, sf, inbox,
                   lis, fills>>

\* a Close without the Once: every call closes the broker
OnceDoAgain(f, t) ==
    LET s == th[f][t]
    IN  /\ Alive(f)
        /\ s.pc = "onceDo"
        /\ factory[f].closeOnce # "running"
        /\ factory' = [factory EXCEPT ![f].closeOnce = "running"]
        /\ SetTh(f, t, [s EXCEPT !.pc = "mbClose"])
        /\ UNCHANGED <<shared, local, configs, regPkgKey, regKeyOnce, usedPrefixs, faults, sf, inbox, lis,
                       fills>>

\* f.closeOnce.Do(func): the first caller goes on into the function, a caller
\* that finds it running waits, a caller that finds it done returns
OnceDo(f, t) ==
    LET s == th[f][t]
    IN  /\ Alive(f)
        /\ s.pc = "onceDo"
        /\ factory[f].closeOnce # "running"
        /\ IF factory[f].closeOnce = "done"
           THEN /\ factory' = factory
                /\ SetTh(f, t, Return(s, <<>>, Nil))
           ELSE /\ factory' = [factory EXCEPT ![f].closeOnce = "running"]
                /\ SetTh(f, t, [s EXCEPT !.pc = "mbClose"])
        /\ UNCHANGED <<shared, local, configs, regPkgKey, regKeyOnce, usedPrefixs, faults, sf, inbox, lis,
                       fills>>

\* messageBroker.close up to pubsub.Close(): nothing without a pub/sub; else
\* the subscription is closed, so that the stream of the listener ends after
\* the messages it holds.  A listener that has not called Sub yet either
\* finds the stream closed when it does, or, with an adapter whose Close does
\* nothing before Sub (as the Redis adapter), subscribes later to a stream
\* nobody will close
MbClose(f, t) ==
    LET s == th[f][t]
    IN  /\ Alive(f)
        /\ s.pc = "mbClose"
        /\ IF ~registered(f)
           THEN /\ factory' = [factory EXCEPT ![f].closeOnce = "done"]
                /\ lis' = lis
                /\ SetTh(f, t, Return(s, <<>>, Nil))
           ELSE /\ factory' = [factory EXCEPT ![f].closes = @ + 1]
                /\ \E st \in (IF lis[f].state = "subscribed" THEN {"closing"}
                              ELSE IF lis[f].state = "starting" THEN {"closing", "starting"}
                              ELSE {lis[f].state}) :
                     lis' = [lis EXCEPT ![f].state = st]
                /\ SetTh(f, t, [s EXCEPT !.pc = "wgWait"])
        /\ UNCHANGED <<shared, local, configs, regPkgKey, regKeyOnce, usedPrefixs, faults, sf, inbox, fills>>

\* mb.wg.Wait(): returns when the listener task has ended; the function of
\* the Once returns and Close with it
WgWait(f, t) ==
    LET s == th[f][t]
    IN  /\ Alive(f)
        /\ s.pc = "wgWait"
        /\ lis[f].state \in {"none", "stopped"}
        /\ factory' = [factory EXCEPT ![f].closeOnce = "done"]
        /\ SetTh(f, t, Return(s, <<>>, Nil))
        /\ UNCHANGED <<shared, local, configs, regPkgKey, regKeyOnce, usedPrefixs, faults, sf, inbox, lis,
                       fills>>

\* the stream of pubsub.Sub is closed and empty: the loop of the listener
\* ends and the task is done
ListenEnd(f) ==
    /\ lis[f].state = "closing"
    /\ inbox[f] = <<>>
    /\ lis' = [lis EXCEPT ![f].state = "stopped", ![f].stops = @ + 1]
    /\ UNCHANGED <<shared, local, configs, factory, regPkgKey, regKeyOnce, usedPrefixs, faults, th, sf,
                   inbox, fills>>

\* Two tasks of one factory set key a and close the factory, with and
\* without a pub/sub.
CallShut(t) ==
    /\ th["F1"][t].n < MaxCloses
    /\ \/ CallClose("F1", t)
       \/ t = 1 /\ Call("F1", t, "Set", Pfx, <<>>, (KeyOrder[1] :> 7), Nil)

InitShut == InitOf({"F1"}, {Both}, {FALSE, TRUE}, {{}}, {})

StepsShut(t) ==
    \/ OnceDo("F1", t)
    \/ MbClose("F1", t)
    \/ WgWait("F1", t)
    \/ RefillShared("F1", t)
    \/ RefillLocal("F1", t)
    \/ RefillEvict("F1", t)

NextShut ==
    \/ \E t \in Threads : CallShut(t) \/ StepsShut(t)
    \/ Subscribe("F1")
    \/ Listen("F1")
    \/ ListenEnd("F1")

SpecShut == InitShut /\ [][NextShut]_vars

\* a Close of factory F1 has returned
Closed(t) == th["F1"][t].pc = "idle" /\ th["F1"][t].op = "Close"

ClosedWithoutPubsubSeen ==
    /\ ~registered("F1")
    /\ Closed(1)
    /\ th["F1"][1].prev.op = "Close"
    /\ Closed(2)
    /\ factory["F1"].closes = 0

\* ------------------------------------------------- keys and package key
\* The package key is set once through registerKey; a task builds the cache
\* key of a prefix and a key and parses it back, and asks for the topic of an
\* event type.  Strings are made of a letter and of the delimiter of keys.

Strs == SeqsUpTo({"a", ":"}, MaxStr)

HasDelim(s) == \E i \in 1..Len(s) : <<s[i]>> = cacheDelim

\* registerKey(pkgKey): regKeyOnce.Do(func() { regPkgKey = pkgKey })
registerKey(pkgKey) ==
    /\ regPkgKey' = IF regKeyOnce THEN regPkgKey ELSE pkgKey
    /\ regKeyOnce' = TRUE
    /\ UNCHANGED <<shared, local, configs, factory, usedPrefixs, faults, th, sf, inbox, lis, fills>>

\* getPrefixAndKey(getCacheKey(pfx, key))
CallGetPrefixAndKey(pfx, key) ==
    /\ SetTh("F1", 1, [NoCall EXCEPT !.n = 1, !.op = "getPrefixAndKey", !.keys = <<pfx, key>>,
                                     !.ckeys = <<getCacheKey(pfx, key)>>,
                                     !.out = getPrefixAndKey(getCacheKey(pfx, key))])
    /\ UNCHANGED <<shared, local, configs, factory, regPkgKey, regKeyOnce, usedPrefixs, faults,
                   sf, inbox, lis, fills>>

\* x.Topic() of event.go and getTopic(x.String()) of key.go
CallTopic(x) ==
    /\ SetTh("F1", 1, [NoCall EXCEPT !.n = 1, !.op = "Topic", !.keys = <<eventTypeString(x)>>,
                                     !.out = <<Topic(x)>>])
    /\ UNCHANGED <<shared, local, configs, factory, regPkgKey, regKeyOnce, usedPrefixs, faults,
                   sf, inbox, lis, fills>>

InitKey == InitOf({"F1"}, {Both}, {TRUE}, {{}}, {})

NextKey ==
    \/ \E pkgKey \in Strs : registerKey(pkgKey)
    \/ \E pfx \in Strs, key \in Strs : CallGetPrefixAndKey(pfx, key)
    \/ \E x \in EventTypes : CallTopic(x)

SpecKey == InitKey /\ [][NextKey]_vars

KeyRoundTripEmptySeen ==
    LET s == th["F1"][1]
    IN  /\ s.op = "getPrefixAndKey"
        /\ regPkgKey = <<>>
        /\ s.keys = << <<"a">>, <<"a", "a">> >>
        /\ s.ckeys = << <<"a", ":", "a", "a">> >>
        /\ s.out = s.keys

\* C22, as stated: the topic of an event type is the package key of the
\* process, "ca" or the one registered, then '#', "tp", '#' and the name of
\* the type; and the topic Evict is published on is one the listener
\* subscribes to and finds in its table.
TopicFollowsPackageKey ==
    LET s == th["F1"][1]
    IN  /\ s.op = "Topic" => s.out = <<getTopic(s.keys[1])>>
        /\ sendMessage("F1", evictEvent(<<>>)).topic = Topic(EventTypeEvict)
        /\ Topic(EventTypeEvict) \in DOMAIN regTopicEventMap

\* what the code does: the topic is built on the constant "ca", registered
\* package key or not, and Evict is published on the topic subscribed to
TopicOnConstant ==
    LET s == th["F1"][1]
    IN  /\ s.op = "Topic"
           => s.out = <<packageKey \o topicDelim \o topicKey \o topicDelim \o s.keys[1]>>
        /\ sendMessage("F1", evictEvent(<<>>)).topic = Topic(EventTypeEvict)
        /\ Topic(EventTypeEvict) \in DOMAIN regTopicEventMap

\* the topic of Evict has been asked for after a package key was registered
TopicAfterRegisterSeen ==
    LET s == th["F1"][1]
    IN  /\ s.op = "Topic"
        /\ s.keys = <<eventTypeString(EventTypeEvict)>>
        /\ regKeyOnce
        /\ regPkgKey = <<"a", "a">>
        /\ s.out # <<getTopic(s.keys[1])>>

\* ------------------------------------------------- tiers that may fail
\* One task sets, reads and deletes key a on a prefix bound to both tiers,
\* with a pub/sub; one call of one tier may return a transport error: the
\* MSet or the Del of the local tier, the MGet, the MSet or the Del of the
\* shared tier.

TierFaults == {{"local.MSet"}, {"local.Del"}, {"shared.MGet"}, {"shared.MSet"}, {"shared.Del"}}

CallTierFault ==
    /\ th["F1"][1].n < MaxFills
    /\ \/ \E v \in Vals : Call("F1", 1, "Set", Pfx, <<>>, (KeyOrder[1] :> v), Nil)
       \/ Call("F1", 1, "Get", Pfx, <<KeyOrder[1]>>, <<>>, Nil)
       \/ Call("F1", 1, "Del", Pfx, <<KeyOrder[1]>>, <<>>, Nil)
       \/ \E g \in Getters : Call("F1", 1, "GetByFunc", Pfx, <<KeyOrder[1]>>, <<>>, g)

InitTierFault == \E F \in TierFaults : InitOf({"F1"}, {Both}, {TRUE}, {{}}, F)

StepsTierFault ==
    \/ SfDo("F1", 1)
    \/ SfDone("F1", 1)
    \/ LoadLocal("F1", 1)
    \/ LoadShared("F1", 1)
    \/ LoadFill("F1", 1)
    \/ LoadEvict("F1", 1)
    \/ Getter("F1", 1)
    \/ RefillShared("F1", 1)
    \/ RefillLocal("F1", 1)
    \/ RefillEvict("F1", 1)
    \/ DelShared("F1", 1)
    \/ DelLocal("F1", 1)
    \/ DelEvict("F1", 1)

NextTierFault == CallTierFault \/ StepsTierFault \/ Subscribe("F1") \/ Listen("F1")

SpecTierFault == InitTierFault /\ [][NextTierFault]_vars

\* C23, as stated: a call whose refill wrote the shared tier and then got an
\* error from the MSet of the local tier returns no error, and its refill
\* still ends with the publication of an Evict.
LocalRefillFailureStillEvicts ==
    LET s == th["F1"][1]
    IN  (s.pc = "idle" /\ <<"refill", "local.MSet">> \in s.failed)
        => /\ s.err = Nil
           /\ CallsIn(s, "refill") = <<"shared.MSet", "local.MSet", "Pub">>

\* what the code does: the call returns no error and its refill ends at the
\* failed MSet of the local tier, without a publication
LocalRefillFailureSilent ==
    LET s == th["F1"][1]
    IN  (s.pc = "idle" /\ <<"refill", "local.MSet">> \in s.failed)
        => /\ s.err = Nil
           /\ CallsIn(s, "refill") = <<"shared.MSet", "local.MSet">>
           /\ getCacheKey(Pfx, KeyOrder[1]) \in DOMAIN shared

\* a Set has returned without an error after the MSet of the local tier
\* failed: the shared tier holds 12, the local tier nothing, nothing published
LocalRefillFailureSeen ==
    LET s == th["F1"][1]
        ck == getCacheKey(Pfx, KeyOrder[1])
    IN  /\ s.pc = "idle"
        /\ s.op = "Set"
        /\ s.err = Nil
        /\ s.failed = {<<"refill", "local.MSet">>}
        /\ lis["F1"].state = "subscribed"
        /\ ck \in DOMAIN shared /\ shared[ck] = <<"1", "2">>
        /\ ck \notin DOMAIN local["F1"]
        /\ inbox["F1"] = <<>>
        /\ lis["F1"].missed = 0
        /\ lis["F1"].cb.e = NoEvent

\* the shared-tier calls of load, refill and del
SharedCalls == {<<"load", "shared.MGet">>, <<"refill", "shared.MSet">>, <<"del", "shared.Del">>}

\* C24: when the MGet of the shared tier in load, its MSet in refill or its
\* Del in del returns an error, that is the last call load, refill or del
\* makes, the call returns the error, and no step of the call from the failure
\* on changes the local tier or publishes.
SharedErrorStops ==
    /\ [](LET s == th["F1"][1]
          IN  \A c \in SharedCalls :
                (c \in s.failed /\ s.pc \in {"idle", "sfDone"})
                => /\ s.err = "errShared"
                   /\ s.out = <<>>
                   /\ s.log[Len(s.log)] = c
                   /\ CallsIn(s, c[1])[Len(CallsIn(s, c[1]))] = c[2])
    /\ [][LET s2 == th'["F1"][1]
          IN  (th' # th /\ s2.failed \cap SharedCalls # {})
              => /\ local' = local
                 /\ inbox' = inbox
                 /\ shared' = shared]_vars

\* a Del of a key that was set has returned the error of the shared tier:
\* both tiers still hold the key and nothing was published for the Del
SharedErrorSeen ==
    LET s == th["F1"][1]
        ck == getCacheKey(Pfx, KeyOrder[1])
    IN  /\ s.pc = "idle"
        /\ s.op = "Del"
        /\ s.err = "errShared"
        /\ s.failed = {<<"del", "shared.Del">>}
        /\ s.log = << <<"del", "shared.Del">> >>
        /\ s.prev.op = "Set"
        /\ ck \in DOMAIN shared
        /\ ck \in DOMAIN local["F1"]

\* a Get has returned the error of the MGet of the shared tier
SharedReadErrorSeen ==
    LET s == th["F1"][1]
    IN  /\ s.pc = "idle"
        /\ s.op = "Get"
        /\ s.err = "errShared"
        /\ s.log = << <<"load", "local.MGet">>, <<"load", "shared.MGet">> >>

\* a Set has returned the error of the MSet of the shared tier
SharedWriteErrorSeen ==
    LET s == th["F1"][1]
    IN  /\ s.pc = "idle"
        /\ s.op = "Set"
        /\ s.err = "errShared"
        /\ s.log = << <<"refill", "shared.MSet">> >>
        /\ local["F1"] = <<>>

\* C25: a Del whose local-tier Del returned an error returns that error; the
\* shared tier no longer holds the keys, the failed Del is the last call of
\* del, and no step of the call from the failure on publishes or changes a
\* tier.
LocalDelErrorReturned ==
    /\ [](LET s == th["F1"][1]
          IN  (s.pc = "idle" /\ <<"del", "local.Del">> \in s.failed)
              => /\ s.op = "Del"
                 /\ s.err = "errLocal"
                 /\ s.log = << <<"del", "shared.Del">>, <<"del", "local.Del">> >>
                 /\ \A k \in Range(s.keys) : getCacheKey(Pfx, k) \notin DOMAIN shared)
    /\ [][(th' # th /\ <<"del", "local.Del">> \in th'["F1"][1].failed)
          => /\ inbox' = inbox
             /\ local' = local
             /\ shared' = shared]_vars

\* a Del of a key that was set has returned the error of the local tier: the
\* shared tier has lost the key, the local tier holds it, nothing is in flight
LocalDelErrorSeen ==
    LET s == th["F1"][1]
        ck == getCacheKey(Pfx, KeyOrder[1])
    IN  /\ s.pc = "idle"
        /\ s.op = "Del"
        /\ s.err = "errLocal"
        /\ s.prev.op = "Set"
        /\ s.prev.err = Nil
        /\ lis["F1"].state = "subscribed"
        /\ lis["F1"].missed = 0
        /\ lis["F1"].peer = 0
        /\ inbox["F1"] = <<>>
        /\ ck \notin DOMAIN shared
        /\ ck \in DOMAIN local["F1"]

\* C26: a GetByFunc whose getter succeeded on a miss and whose refill failed
\* in the shared-tier MSet returns the error of that tier, decodes nothing
\* into out, and its refill makes no call after the failed one; no step from
\* the failure on writes the local tier.
GetByFuncRefillErrorReturned ==
    /\ [](LET s == th["F1"][1]
          IN  (s.pc = "idle" /\ s.op = "GetByFunc"
                 /\ <<"refill", "shared.MSet">> \in s.failed)
              => /\ s.err = "errShared"
                 /\ s.out = <<>>
                 /\ CallsIn(s, "GetByFunc") = <<"getter">>
                 /\ CallsIn(s, "refill") = <<"shared.MSet">>)
    /\ [][(th' # th /\ th'["F1"][1].op = "GetByFunc"
             /\ <<"refill", "shared.MSet">> \in th'["F1"][1].failed)
          => local' = local]_vars

\* a GetByFunc on an empty cache has called the getter, failed to write the
\* shared tier and returned: neither tier holds the key
GetByFuncRefillErrorSeen ==
    LET s == th["F1"][1]
        ck == getCacheKey(Pfx, KeyOrder[1])
    IN  /\ s.pc = "idle"
        /\ s.op = "GetByFunc"
        /\ s.err = "errShared"
        /\ <<"refill", "shared.MSet">> \in s.failed
        /\ ck \notin DOMAIN local["F1"]
        /\ ck \notin DOMAIN shared

\* the keys of a call that no bound tier holds, each once, in the order of
\* their first occurrence
FirstMisses(keys) ==
    LET F[i \in 0..Len(keys)] ==
            IF i = 0 THEN <<>>
            ELSE IF (\A j \in 1..(i - 1) : keys[j] # keys[i]) /\ ~InSomeTier(keys[i])
                 THEN Append(F[i - 1], keys[i])
                 ELSE F[i - 1]
    IN  F[Len(keys)]

\* how often the filler was asked for cache key ck
Asked(count, ck) == IF ck \in DOMAIN count THEN count[ck] ELSE 0

AllInLocal(s) ==
    /\ s.pc = "loadLocal"
    /\ s.op \in {"Get", "MGet"}
    /\ configs["F1"][Pfx].local
    /\ \A ck \in Range(s.ckeys) : ck \in DOMAIN local["F1"]

\* C28: a Get or MGet whose keys are all valid in the local tier returns
\* their values after the one read of the local tier: it neither reads nor
\* writes the shared tier, does not rewrite the local tier, and publishes
\* nothing.
LocalHitTouchesNothing ==
    /\ [][LET s == th["F1"][1]
              s2 == th'["F1"][1]
          IN  (AllInLocal(s) /\ s2 # s)
              => /\ s2.pc = (IF s.op = "Get" THEN "sfDone" ELSE "idle")
                 /\ s2.err = Nil
                 /\ s2.log = << <<"load", "local.MGet">> >>
                 /\ LET res == IF s.op = "Get" THEN s2.val.v ELSE s2.res
                    IN  /\ \A i \in 1..Len(s.keys) :
                             res.vals[res.internalIdx[i - 1] + 1]
                               = local["F1"][getCacheKey(Pfx, s.keys[i])]
                        /\ \A i \in 1..Len(res.errs) : res.errs[i] = Nil
                 /\ UNCHANGED <<shared, local, inbox, lis>>]_vars
    /\ [][LET s == th["F1"][1]
              s2 == th'["F1"][1]
          IN  (s2 # s /\ s2.op \in {"Get", "MGet"}
                 /\ s2.log = << <<"load", "local.MGet">> >>)
              => /\ UNCHANGED <<shared, local, inbox, lis>>
                 /\ s2.pc = "idle" /\ s2.err = Nil /\ s2.op = "Get"
                    => \E ck \in DOMAIN local["F1"] :
                         /\ ck = getCacheKey(Pfx, s2.keys[1])
                         /\ s2.out = Unmarshal(local["F1"][ck]).out]_vars

\* a Get of a key held by both tiers has returned its value after reading the
\* local tier alone, with the listener subscribed and nothing in flight
LocalHitSeen ==
    LET s == th["F1"][1]
        ck == getCacheKey(Pfx, KeyOrder[1])
    IN  /\ s.pc = "idle"
        /\ s.op = "Get"
        /\ s.keys = <<KeyOrder[1]>>
        /\ s.err = Nil
        /\ s.log = << <<"load", "local.MGet">> >>
        /\ configs["F1"][Pfx].shared
        /\ ck \in DOMAIN shared
        /\ ck \in DOMAIN local["F1"]
        /\ s.out = Unmarshal(local["F1"][ck]).out
        /\ lis["F1"].state = "subscribed"
        /\ inbox["F1"] = <<>>

\* an MGet of b, a, b has returned both values from the local tier alone
LocalHitMGetSeen ==
    LET s == th["F1"][1]
    IN  /\ s.pc = "idle"
        /\ s.op = "MGet"
        /\ s.keys = <<KeyOrder[2], KeyOrder[1], KeyOrder[2]>>
        /\ s.err = Nil
        /\ s.log = << <<"load", "local.MGet">> >>
        /\ \A k \in UserKeys : getCacheKey(Pfx, k) \in DOMAIN local["F1"]
        /\ \A i \in 1..Len(s.res.errs) : s.res.errs[i] = Nil
        /\ Len(s.res.vals) = 2

\* a newFactory that starts the listener for any pub/sub, with or without a
\* local tier
subscribeEvictEventsAnyTier(pubsub, localCache) == pubsub

\* factory.subscribeEvictEvents: whether newFactory starts the listener task
subscribeEvictEvents(pubsub, localCache) == ~(~pubsub \/ ~localCache)

\* newFactory with or without a pub/sub and with or without a local tier; the
\* prefix binds the tiers the factory has
InitLife ==
    /\ regPkgKey = packageKey
    /\ regKeyOnce = FALSE
    /\ usedPrefixs = [f \in Procs |-> {Pfx}]
    /\ shared = <<>>
    /\ local = [f \in Procs |-> <<>>]
    /\ \E ps \in BOOLEAN, lc \in BOOLEAN :
         /\ configs = [f \in Procs |-> (Pfx :> [shared |-> TRUE, local |-> lc, mGetter |-> {}])]
         /\ factory = [f \in Procs |-> [sharedCache |-> TRUE, localCache |-> lc, pubsub |-> ps,
                                         closeOnce |-> "new", closes |-> 0]]
         /\ lis = [f \in Procs |->
                     [state |-> IF f = "F1" /\ subscribeEvictEvents(ps, lc)
                                THEN "starting" ELSE "none",
                      cb |-> [e |-> NoEvent, err |-> Nil],
                      peer |-> 0, missed |-> 0, stops |-> 0, calls |-> 0]]
    /\ faults = {}
    /\ th = [f \in Procs |-> [t \in Threads |-> NoCall]]
    /\ sf = [f \in Procs |-> <<>>]
    /\ inbox = [f \in Procs |-> <<>>]
    /\ fills = [f \in Procs |-> <<>>]

NextLife ==
    \/ \E t \in Threads : CallShut(t) \/ StepsShut(t)
    \/ Subscribe("F1")
    \/ Listen("F1")
    \/ ListenEnd("F1")

SpecLife == InitLife /\ [][NextLife]_vars

NoListenerWithoutLocalSeen ==
    /\ factory["F1"].pubsub
    /\ ~factory["F1"].localCache
    /\ Closed(1)
    /\ th["F1"][1].prev.op = "Set"
    /\ th["F1"][1].prev.err = Nil
    /\ lis["F1"].state = "none"
    /\ factory["F1"].closes = 1

\* ------------------------------------------------- the broker and the wire

MaxWire == 3

\* what the pub/sub may deliver to a subscription: the Evict topic, the topic
\* of no registered event and a foreign topic, each with a body from F1, a
\* body from F2 or bytes that are no JSON
WireTopics == {Topic(EventTypeEvict), Topic(EventTypeNone), <<"x">>}
WireContents ==
    {jsonBody([FID |-> fid, Keys |-> <<getCacheKey(Pfx, KeyOrder[1])>>]) : fid \in Procs}
      \cup {<<"raw">>}
Wire == [topic : WireTopics, content : WireContents]

\* the pub/sub hands one more message to the subscription of f
Deliver(f, mess) ==
    /\ lis[f].state = "subscribed"
    /\ Len(inbox[f]) < MaxInbox
    /\ lis[f].calls + Len(inbox[f]) < MaxWire
    /\ inbox' = [inbox EXCEPT ![f] = Append(@, mess)]
    /\ UNCHANGED <<shared, local, configs, factory, regPkgKey, regKeyOnce, usedPrefixs, faults, th, sf,
                   lis, fills>>

CallBroker ==
    /\ th["F1"][1].n < MaxFills
    /\ \E v \in Vals : Call("F1", 1, "Set", Pfx, <<>>, (KeyOrder[1] :> v), Nil)

InitBroker == InitOf({"F1"}, {Both}, {TRUE}, {{}}, {})

NextBroker ==
    \/ CallBroker
    \/ RefillShared("F1", 1)
    \/ RefillLocal("F1", 1)
    \/ RefillEvict("F1", 1)
    \/ Subscribe("F1")
    \/ \E mess \in Wire : Deliver("F1", mess)
    \/ Listen("F1")

SpecBroker == InitBroker /\ [][NextBroker]_vars

\* C30: the handler is called once for each message received, in the order
\* of delivery: with no event and the unknown-topic error for a topic that is
\* not the topic of a registered event, with no event and the decode error
\* for a body that does not decode, with the event and errSelfEvent for a
\* body of the broker's own factory, and with the event and no error
\* otherwise.
HandlerOncePerMessage ==
    [][LET q == inbox["F1"]
           q2 == inbox'["F1"]
           l == lis["F1"]
           l2 == lis'["F1"]
           m == Head(q)
           known == m.topic = Topic(EventTypeEvict)
           decodes == m.content # <<"raw">>
           body == m.content[2]
       IN  /\ l2.calls # l.calls <=> Len(q2) < Len(q)
           /\ Len(q2) > Len(q) => /\ Len(q2) = Len(q) + 1
                                  /\ SubSeq(q2, 1, Len(q)) = q
           /\ Len(q2) < Len(q)
              => /\ q2 = Tail(q)
                 /\ l2.calls = l.calls + 1
                 /\ ~known => l2.cb = [e |-> NoEvent, err |-> "no such topic registered"]
                 /\ (known /\ ~decodes) => l2.cb = [e |-> NoEvent, err |-> "errDecode"]
                 /\ (known /\ decodes /\ body.FID = "F1")
                    => l2.cb = [e |-> [Type |-> EventTypeEvict, Body |-> body],
                                err |-> errSelfEvent]
                 /\ (known /\ decodes /\ body.FID # "F1")
                    => l2.cb = [e |-> [Type |-> EventTypeEvict, Body |-> body],
                                err |-> Nil]]_vars

\* three messages were delivered: the handler was called for the first two,
\* last with the unknown-topic error, and the Evict of F2 is still waiting
HandlerCalledInOrderSeen ==
    /\ lis["F1"].calls = 2
    /\ lis["F1"].cb = [e |-> NoEvent, err |-> "no such topic registered"]
    /\ inbox["F1"] = << [topic |-> Topic(EventTypeEvict),
                         content |-> jsonBody([FID |-> "F2",
                                               Keys |-> <<getCacheKey(Pfx, KeyOrder[1])>>])] >>

\* the handler was called with the decode error
HandlerDecodeErrorSeen ==
    lis["F1"].calls > 0 /\ lis["F1"].cb.err = "errDecode"

\* the handler was called with an event of F1 itself that this F1 published
HandlerSelfEventSeen ==
    /\ lis["F1"].calls = 1
    /\ lis["F1"].cb.err = errSelfEvent
    /\ th["F1"][1].pc = "idle"
    /\ th["F1"][1].op = "Set"
    /\ lis["F1"].missed = 0

\* the handler was called with the Evict of F2 and no error, and the key left
\* the local tier
HandlerPeerEventSeen ==
    /\ lis["F1"].calls = 2
    /\ lis["F1"].peer = 1
    /\ lis["F1"].cb.err = Nil
    /\ lis["F1"].cb.e.Body.FID = "F2"
    /\ th["F1"][1].pc = "idle"
    /\ th["F1"][1].op = "Set"
    /\ getCacheKey(Pfx, KeyOrder[1]) \notin DOMAIN local["F1"]

\* ------------------------------------------------ messageBroker.listen alone

errNoEventType == "errNoEventType"

\* the lists of event types given to listen
TypeLists == {<<>>, <<EventTypeEvict>>, <<EventTypeEvict, EventTypeNone>>}

\* a listen that starts the consumer whatever the types are
listenAnyTypes(f, t, types) ==
    /\ th[f][t].pc = "idle"
    /\ th[f][t].n < MaxOps
    /\ lis[f].state = "none"
    /\ LET s == [NoCall EXCEPT !.n = th[f][t].n + 1, !.op = "listen",
                               !.keys = [i \in 1..Len(types) |-> eventTypeString(types[i])]]
       IN  IF ~registered(f)
           THEN /\ SetTh(f, t, Return(s, <<>>, Nil))
                /\ lis' = lis
           ELSE /\ SetTh(f, t, Return(s, <<>>, Nil))
                /\ lis' = [lis EXCEPT ![f].state = "starting"]
    /\ UNCHANGED <<shared, local, configs, factory, regPkgKey, regKeyOnce, usedPrefixs, faults, sf,
                   inbox, fills>>

\* messageBroker.listen up to its return: nil without a pub/sub,
\* errNoEventType without types, else wg.Add(1) and the consumer goroutine
listen(f, t, types) ==
    /\ th[f][t].pc = "idle"
    /\ th[f][t].n < MaxOps
    /\ lis[f].state = "none"
    /\ LET s == [NoCall EXCEPT !.n = th[f][t].n + 1, !.op = "listen",
                               !.keys = [i \in 1..Len(types) |-> eventTypeString(types[i])]]
       IN  IF ~registered(f)
           THEN /\ SetTh(f, t, Return(s, <<>>, Nil))
                /\ lis' = lis
           ELSE IF Len(types) = 0
           THEN /\ SetTh(f, t, Return(s, <<>>, errNoEventType))
                /\ lis' = lis
           ELSE /\ SetTh(f, t, Return(s, <<>>, Nil))
                /\ lis' = [lis EXCEPT ![f].state = "starting"]
    /\ UNCHANGED <<shared, local, configs, factory, regPkgKey, regKeyOnce, usedPrefixs, faults, sf,
                   inbox, fills>>

\* newMessageBroker with or without a pub/sub; listen not yet called
InitListen == InitOf({}, {Both}, {FALSE, TRUE}, {{}}, {})

NextListen ==
    \/ \E types \in TypeLists : listen("F1", 1, types)
    \/ Subscribe("F1")
    \/ \E mess \in Wire : Deliver("F1", mess)
    \/ Listen("F1")

SpecListen == InitListen /\ [][NextListen]_vars

\* C31 as stated: every listen without types returns errNoEventType
ListenNoTypesAlwaysFails ==
    LET s == th["F1"][1]
    IN  (s.op = "listen" /\ s.keys = <<>>) => s.err = errNoEventType

\* C31: on a broker with a pub/sub, listen without types returns
\* errNoEventType; with or without a pub/sub, a listen without types starts
\* no consumer, and no consumer subscribes unless a listen with types on a
\* broker with a pub/sub started it.
ListenNoTypesFails ==
    /\ [](LET s == th["F1"][1]
          IN  /\ (s.op = "listen" /\ s.keys = <<>> /\ registered("F1"))
                 => s.err = errNoEventType
              /\ (s.op = "listen" /\ s.keys = <<>> /\ ~registered("F1")) => s.err = Nil
              /\ lis["F1"].state # "none" => registered("F1"))
    /\ [][LET s2 == th'["F1"][1]
          IN  /\ (th' # th /\ s2.keys = <<>>) => (lis' = lis /\ inbox' = inbox)
              /\ (lis["F1"].state = "none" /\ lis'["F1"].state # "none")
                 => (s2.op = "listen" /\ s2.keys # <<>> /\ s2.err = Nil
                       /\ lis'["F1"].state = "starting")]_vars

\* with a pub/sub, listen was called twice without types and failed both
\* times: no consumer, nothing subscribed
ListenNoTypesSeen ==
    LET s == th["F1"][1]
    IN  /\ registered("F1")
        /\ s.op = "listen"
        /\ s.n = 2
        /\ s.keys = <<>>
        /\ s.err = errNoEventType
        /\ lis["F1"].state = "none"
        /\ inbox["F1"] = <<>>

\* without a pub/sub, listen without types returned nil
ListenNoTypesNoPubsubSeen ==
    LET s == th["F1"][1]
    IN  /\ ~registered("F1")
        /\ s.op = "listen"
        /\ s.keys = <<>>
        /\ s.err = Nil
        /\ lis["F1"].state = "none"

\* --------------------------------------- the handler and messages of no use

\* bodies for the handler: an Evict of F2 with and without a key, an Evict of
\* F1 itself, and bytes that are no JSON
HandlerContents ==
    {jsonBody([FID |-> "F2", Keys |-> ks]) : ks \in {<<>>, <<getCacheKey(Pfx, KeyOrder[1])>>}}
      \cup {jsonBody([FID |-> "F1", Keys |-> <<getCacheKey(Pfx, KeyOrder[1])>>]), <<"raw">>}
HandlerWire == [topic : WireTopics, content : HandlerContents]

\* F1 writes both keys in one MSet
CallHandler ==
    /\ th["F1"][1].n < MaxFills
    /\ Call("F1", 1, "MSet", Pfx, <<>>, (KeyOrder[1] :> 7) @@ (KeyOrder[2] :> 12), Nil)

InitHandler == InitOf({"F1"}, {Both}, {TRUE}, {{}}, {})

NextHandler ==
    \/ CallHandler
    \/ RefillShared("F1", 1)
    \/ RefillLocal("F1", 1)
    \/ RefillEvict("F1", 1)
    \/ Subscribe("F1")
    \/ \E mess \in HandlerWire : Deliver("F1", mess)
    \/ Listen("F1")

SpecHandler == InitHandler /\ [][NextHandler]_vars

\* the message is an Evict of another factory that names at least one key
PeerEvictWithKeys(m) ==
    /\ m.topic = Topic(EventTypeEvict)
    /\ m.content # <<"raw">>
    /\ m.content[2].FID # "F1"
    /\ m.content[2].Keys # <<>>

\* C32: a message on an unknown topic (the topic of None included), a body
\* that does not decode, a self-event or an Evict without keys leaves the
\* local tier as it is, and the listener goes on: it never leaves the
\* subscribed state and no task crashes, and whenever it takes an Evict of
\* another factory that names k, k and only k leaves the local tier.
JunkLeavesListenerWorking ==
    /\ [](Alive("F1"))
    /\ [][LET q == inbox["F1"]
              m == Head(q)
          IN  /\ lis["F1"].state = "subscribed" => lis'["F1"].state = "subscribed"
              /\ lis'["F1"].calls # lis["F1"].calls
                 => IF PeerEvictWithKeys(m)
                    THEN /\ DOMAIN local'["F1"]
                              = DOMAIN local["F1"] \ Range(m.content[2].Keys)
                         /\ \A ck \in DOMAIN local'["F1"] : local'["F1"][ck] = local["F1"][ck]
                    ELSE local' = local]_vars

\* F1 holds both keys; its listener handled its own Evict and a message of no
\* use, then the Evict of F2 for the first key: that key is gone and the
\* other is still there
JunkThenEvictSeen ==
    /\ th["F1"][1].pc = "idle"
    /\ th["F1"][1].op = "MSet"
    /\ th["F1"][1].n = 1
    /\ lis["F1"].missed = 0
    /\ lis["F1"].calls = 3
    /\ lis["F1"].peer = 1
    /\ lis["F1"].cb.err = Nil
    /\ lis["F1"].cb.e.Body.Keys = <<getCacheKey(Pfx, KeyOrder[1])>>
    /\ getCacheKey(Pfx, KeyOrder[1]) \notin DOMAIN local["F1"]
    /\ getCacheKey(Pfx, KeyOrder[2]) \in DOMAIN local["F1"]

\* the listener handled an Evict of F2 without keys and both keys are still
\* in the local tier
EmptyEvictSeen ==
    /\ lis["F1"].calls = 2
    /\ lis["F1"].cb.err = Nil
    /\ lis["F1"].cb.e.Type = EventTypeEvict
    /\ lis["F1"].cb.e.Body.Keys = <<>>
    /\ getCacheKey(Pfx, KeyOrder[1]) \in DOMAIN local["F1"]
    /\ getCacheKey(Pfx, KeyOrder[2]) \in DOMAIN local["F1"]

\* C33: with Get and GetByFunc of one key running at once in one process,
\* the result of a flight is handed only to waiting calls of the leader's own
\* operation, and no call that receives it crashes.
MixedFlightsKeepTheirKind ==
    [][\A t, u \in Threads :
          (/\ th["F1"][t].pc = "sfDone"
           /\ th["F1"][u].pc = "sfWait"
           /\ th["F1"][u].sfKey = th["F1"][t].sfKey
           /\ th'["F1"][t].pc # "sfDone")
          => (/\ th["F1"][u].op = th["F1"][t].op
              /\ th'["F1"][u].pc # "panic")]_vars

\* what the code does: only a call that joined the flight of another task
\* crashes, and a call that led its own flight or joined one of its own
\* operation gets a result of its kind or an error
OnlyMixedFollowersCrash ==
    /\ \A t \in Threads : th["F1"][t].pc = "panic" => th["F1"][t].role = "follower"
    /\ [][\A t, u \in Threads :
            (/\ th["F1"][t].pc = "sfDone"
             /\ th["F1"][u].pc = "sfWait"
             /\ th["F1"][u].sfKey = th["F1"][t].sfKey
             /\ th'["F1"][t].pc # "sfDone")
            => (th'["F1"][u].pc = "panic"
                  <=> (th["F1"][u].op # th["F1"][t].op /\ th["F1"][t].err = Nil))]_vars

\* a Get joined the flight of a GetByFunc, or the reverse, and crashed
MixedFollowerCrashedSeen ==
    \E u \in Threads : /\ th["F1"][u].pc = "panic"
                       /\ th["F1"][u].role = "follower"

\* ------------------------------------- one process, a writer and a reader

\* task 1 writes and reads key a, task 2 only reads it, by Get, by MGet and
\* by GetByFunc
CallRace ==
    \/ /\ th["F1"][1].n < MaxOps
       /\ \/ \E v \in Vals : Call("F1", 1, "Set", Pfx, <<>>, (KeyOrder[1] :> v), Nil)
          \/ Call("F1", 1, "Del", Pfx, <<KeyOrder[1]>>, <<>>, Nil)
          \/ Call("F1", 1, "Get", Pfx, <<KeyOrder[1]>>, <<>>, Nil)
    \/ /\ th["F1"][2].n < MaxFlights
       /\ \/ Call("F1", 2, "Get", Pfx, <<KeyOrder[1]>>, <<>>, Nil)
          \/ Call("F1", 2, "MGet", Pfx, <<KeyOrder[1]>>, <<>>, Nil)
          \/ \E g \in Getters : Call("F1", 2, "GetByFunc", Pfx, <<KeyOrder[1]>>, <<>>, g)

InitRace == InitOf({"F1"}, {Both}, {FALSE}, {{}, {"ok"}}, {})

StepsRace(t) ==
    \/ SfDo("F1", t)
    \/ SfDone("F1", t)
    \/ LoadLocal("F1", t)
    \/ LoadShared("F1", t)
    \/ LoadFill("F1", t)
    \/ MGetter("F1", t)
    \/ Getter("F1", t)
    \/ RefillShared("F1", t)
    \/ RefillLocal("F1", t)
    \/ DelShared("F1", t)
    \/ DelLocal("F1", t)

NextRace == CallRace \/ \E t \in Threads : StepsRace(t)

SpecRace == InitRace /\ [][NextRace]_vars

\* C34: task 1 is the only writer of a; its Get of a, called after its one
\* Set of a returned, returns the value set, whatever reads of a task 2 had
\* in flight meanwhile.
GetAfterSetReturnsValue ==
    LET s == th["F1"][1]
    IN  (/\ s.pc = "idle"
         /\ s.op = "Get"
         /\ s.n = 2
         /\ s.prev.op = "Set"
         /\ s.prev.err = Nil)
        => /\ s.err = Nil
           /\ s.out = <<s.prev.kv[KeyOrder[1]]>>

\* what the code does: the Get after the Set returns the value set when task
\* 2 has made no call, and when it read the tiers itself and found them as
\* the Set left them
GetAfterSetAlone ==
    LET s == th["F1"][1]
    IN  (/\ s.pc = "idle"
         /\ s.op = "Get"
         /\ s.n = 2
         /\ s.prev.op = "Set"
         /\ s.prev.err = Nil
         /\ th["F1"][2].n = 0)
        => /\ s.err = Nil
           /\ s.out = <<s.prev.kv[KeyOrder[1]]>>

\* the Get after the Set has returned another value than the one set
GetAfterSetStaleSeen ==
    LET s == th["F1"][1]
    IN  /\ s.pc = "idle"
        /\ s.op = "Get"
        /\ s.n = 2
        /\ s.prev.op = "Set"
        /\ s.prev.err = Nil
        /\ s.err = Nil
        /\ s.role = "leader"
        /\ s.out # <<s.prev.kv[KeyOrder[1]]>>

\* C35: whenever no call is in flight in the process, every key the local
\* tier holds is in the shared tier with the same bytes.
LocalWithinShared ==
    (\A t \in Threads : th["F1"][t].pc = "idle")
    => \A ck \in DOMAIN local["F1"] : ck \in DOMAIN shared /\ shared[ck] = local["F1"][ck]

\* what the code does: the local tier is within the shared tier at rest as
\* long as task 2 has read nothing
LocalWithinSharedAlone ==
    ((\A t \in Threads : th["F1"][t].pc = "idle") /\ th["F1"][2].n = 0)
    => \A ck \in DOMAIN local["F1"] : ck \in DOMAIN shared /\ shared[ck] = local["F1"][ck]

\* at rest, after a Get of task 2 and writes of task 1 only, the local tier
\* holds a value for a that the shared tier does not hold
LocalAheadOfSharedSeen ==
    LET ck == getCacheKey(Pfx, KeyOrder[1])
    IN  /\ \A t \in Threads : th["F1"][t].pc = "idle"
        /\ th["F1"][2].n = 1
        /\ th["F1"][2].op = "Get"
        /\ configs["F1"][Pfx].mGetter = {}
        /\ ck \in DOMAIN local["F1"]
        /\ ck \notin DOMAIN shared

\* ------------------------------------------------- two processes that read

\* each process reads key a, by Get and by GetByFunc with a getter that
\* returns 7; nobody calls Set, MSet or Del
CallReaders(f) ==
    /\ th[f][1].n < MaxFlights
    /\ \/ Call(f, 1, "Get", Pfx, <<KeyOrder[1]>>, <<>>, Nil)
       \/ Call(f, 1, "GetByFunc", Pfx, <<KeyOrder[1]>>, <<>>, [val |-> 7, err |-> Nil])

InitReaders == InitOf(Procs, {Both}, {TRUE}, {{}}, {})

StepsReaders(f) ==
    \/ SfDo(f, 1)
    \/ SfDone(f, 1)
    \/ LoadLocal(f, 1)
    \/ LoadShared(f, 1)
    \/ LoadFill(f, 1)
    \/ LoadEvict(f, 1)
    \/ Getter(f, 1)
    \/ RefillShared(f, 1)
    \/ RefillLocal(f, 1)
    \/ RefillEvict(f, 1)

NextReaders == \E f \in Procs : CallReaders(f) \/ StepsReaders(f) \/ Subscribe(f) \/ Listen(f)

SpecReaders == InitReaders /\ [][NextReaders]_vars

\* C36: with reads only, no local tier loses an entry whose bytes are the
\* shared tier's value for the key.
ReadsKeepFreshEntries ==
    [][\A f \in Procs : \A ck \in DOMAIN local[f] :
          (ck \in DOMAIN shared /\ shared[ck] = local[f][ck]) => ck \in DOMAIN local'[f]]_vars

\* no call in flight, nothing left to deliver, no Evict lost
ReadersAtRest ==
    /\ \A f \in Procs : th[f][1].pc = "idle" /\ inbox[f] = <<>> /\ lis[f].missed = 0
    /\ \A f \in Procs : lis[f].state = "subscribed"

\* what the code does: at rest the two local tiers never hold the key both
PeersNeverBothLocal ==
    ReadersAtRest
    => ~(\A f \in Procs : getCacheKey(Pfx, KeyOrder[1]) \in DOMAIN local[f])

\* F1 held the shared tier's value of a in its local tier; F2 read a by Get,
\* and at rest F1's local tier has lost it
FreshEntryLostSeen ==
    LET ck == getCacheKey(Pfx, KeyOrder[1])
    IN  /\ ReadersAtRest
        /\ th["F1"][1].n = 1
        /\ th["F1"][1].op = "GetByFunc"
        /\ th["F2"][1].n = 1
        /\ th["F2"][1].op = "Get"
        /\ th["F2"][1].err = Nil
        /\ ck \in DOMAIN shared
        /\ ck \in DOMAIN local["F2"]
        /\ local["F2"][ck] = shared[ck]
        /\ ck \notin DOMAIN local["F1"]

\* every task and the listener go on as long as they can; only the calls are
\* up to the caller
SpecShutFair ==
    SpecShut /\ WF_vars((\E t \in Threads : StepsShut(t))
                          \/ Subscribe("F1") \/ Listen("F1") \/ ListenEnd("F1"))

\* C37: every Close returns, however it interleaves with the start of the
\* listener task.
CloseAlwaysReturns ==
    \A t \in Threads :
        (th["F1"][t].op = "Close" /\ th["F1"][t].pc # "idle") ~> Closed(t)

\* what the code does: a Close that reaches the pub/sub when the listener has
\* subscribed, or when there is none, returns
CloseReturnsOnceSubscribed ==
    \A t \in Threads :
        (th["F1"][t].pc = "mbClose" /\ lis["F1"].state \in {"subscribed", "none"}) ~> Closed(t)

\* the pub/sub was closed before the listener subscribed: the listener is
\* subscribed to a stream nobody will close and the Close waits for it
CloseStuckSeen ==
    \E t \in Threads :
        /\ th["F1"][t].op = "Close"
        /\ th["F1"][t].pc = "wgWait"
        /\ factory["F1"].closes = 1
        /\ factory["F1"].closeOnce = "running"
        /\ lis["F1"].state = "subscribed"
        /\ inbox["F1"] = <<>>

\* ------------------------------------------- NewCache and faulty settings

\* the settings of NewCache: a prefix (empty, new, or the one registered at
\* the start) with the shared tier, with no tier, or with the shared tier and
\* a MarshalFunc without its UnmarshalFunc
Settings ==
    {[Prefix |-> pfx, shared |-> k[1], local |-> FALSE, MarshalFunc |-> k[2],
      UnmarshalFunc |-> FALSE] :
        pfx \in {<<>>, PfxNotRegistered, Pfx},
        k \in {<<TRUE, FALSE>>, <<FALSE, FALSE>>, <<TRUE, TRUE>>}}

SettingLists == SeqsUpTo(Settings, MaxRegs)

\* a NewCache that registers the prefixes only once every setting was found
\* good
RECURSIVE NewCacheChecksFirst(_, _, _, _)
NewCacheChecksFirst(f, used, settings, i) ==
    IF i > Len(settings) THEN [used |-> used, err |-> Nil]
    ELSE LET setting == settings[i]
             r == IF setting.Prefix = <<>> THEN [used |-> used, err |-> "not allowed empty prefix"]
                  ELSE IF setting.Prefix \in used
                  THEN [used |-> used, err |-> "duplicated prefix"]
                  ELSE IF setting.MarshalFunc # setting.UnmarshalFunc
                  THEN [used |-> used,
                        err |-> "both of Marshal and Unmarshal functions need to be specified"]
                  ELSE IF ~(\/ setting.shared /\ factory[f].sharedCache
                            \/ setting.local /\ factory[f].localCache)
                  THEN [used |-> used, err |-> "no cache type indicated"]
                  ELSE NewCacheChecksFirst(f, used \cup {setting.Prefix}, settings, i + 1)
         IN  IF r.err = Nil THEN r ELSE [used |-> used, err |-> r.err]

\* factory.NewCache, the loop over the settings from the i-th on: the
\* registry it leaves and the panic it ends with, if any
RECURSIVE NewCacheFrom(_, _, _, _)
NewCacheFrom(f, used, settings, i) ==
    IF i > Len(settings) THEN [used |-> used, err |-> Nil]
    ELSE LET setting == settings[i]
         IN  IF setting.Prefix = <<>> THEN [used |-> used, err |-> "not allowed empty prefix"]
             ELSE IF setting.Prefix \in used THEN [used |-> used, err |-> "duplicated prefix"]
             ELSE LET used1 == used \cup {setting.Prefix}
                  IN  IF setting.MarshalFunc # setting.UnmarshalFunc
                      THEN [used |-> used1,
                            err |-> "both of Marshal and Unmarshal functions need to be specified"]
                      ELSE IF ~(\/ setting.shared /\ factory[f].sharedCache
                                \/ setting.local /\ factory[f].localCache)
                      THEN [used |-> used1, err |-> "no cache type indicated"]
                      ELSE NewCacheFrom(f, used1, settings, i + 1)

\* one task calls NewCache and recovers from its panic
NewCache(f, t, settings) ==
    /\ th[f][t].pc = "idle"
    /\ th[f][t].n < MaxRegs
    /\ LET r == NewCacheFrom(f, usedPrefixs[f], settings, 1)
           old == th[f][t]
       IN  /\ usedPrefixs' = [usedPrefixs EXCEPT ![f] = r.used]
           /\ SetTh(f, t, [NoCall EXCEPT !.n = old.n + 1, !.op = "NewCache", !.keys = settings,
                                         !.err = r.err,
                                         !.prev = [op |-> old.op, keys |-> old.keys,
                                                   kv |-> old.kv, err |-> old.err,
                                                   out |-> old.out, res |-> old.res,
                                                   answer |-> old.answer]])
    /\ UNCHANGED <<shared, local, configs, factory, regPkgKey, regKeyOnce, faults, sf, inbox, lis, fills>>

InitSettings == InitOf({"F1"}, {Both}, {FALSE}, {{}}, {})

NextSettings ==
    \/ \E settings \in SettingLists : NewCache("F1", 1, settings)
    \/ ClearPrefix("F1")

SpecSettings == InitSettings /\ [][NextSettings]_vars

\* C38: a NewCache that aborts leaves the registry as it was.
AbortLeavesRegistry ==
    [][(th' # th /\ th'["F1"][1].op = "NewCache" /\ th'["F1"][1].err # Nil)
       => usedPrefixs' = usedPrefixs]_vars

\* what the code does: an aborted NewCache leaves registered the prefixes of
\* the settings before the faulty one, and the prefix of the faulty one too
\* unless the fault is the prefix itself
AbortKeepsEarlierPrefixes ==
    [][LET s2 == th'["F1"][1]
           bad == CHOOSE i \in 1..Len(s2.keys) :
                     NewCacheFrom("F1", usedPrefixs["F1"], SubSeq(s2.keys, 1, i), 1).err # Nil
       IN  (th' # th /\ s2.op = "NewCache" /\ s2.err # Nil)
           => usedPrefixs'["F1"]
                = usedPrefixs["F1"]
                    \cup {s2.keys[i].Prefix : i \in 1..(bad - 1)}
                    \cup (IF s2.err \in {"not allowed empty prefix", "duplicated prefix"}
                          THEN {} ELSE {s2.keys[bad].Prefix})]_vars

\* a NewCache for a new prefix without a tier was rejected, and the NewCache
\* for the same prefix with a tier that followed it was rejected as a
\* duplicate
RejectedPrefixIsTakenSeen ==
    LET s == th["F1"][1]
    IN  /\ s.op = "NewCache"
        /\ s.n = 2
        /\ Len(s.keys) = 1
        /\ s.keys[1].Prefix = PfxNotRegistered
        /\ s.keys[1].shared
        /\ s.keys[1].MarshalFunc = s.keys[1].UnmarshalFunc
        /\ s.err = "duplicated prefix"
        /\ Len(s.prev.keys) = 1
        /\ s.prev.keys[1].Prefix = PfxNotRegistered
        /\ s.prev.err = "no cache type indicated"

\* ------------------------------ a writer with or without a local tier
\* F1 sets, multi-sets and deletes a key that F2 reads.  F2 binds the prefix
\* to both tiers; F1 binds it to both tiers or to the shared tier alone.
\* Both listen on the same pub/sub; no tier call fails.

CallWriters ==
    \/ /\ th["F1"][1].n < MaxFlights
       /\ \/ \E v \in Vals : Call("F1", 1, "Set", Pfx, <<>>, (KeyOrder[1] :> v), Nil)
          \/ Call("F1", 1, "MSet", Pfx, <<>>, (KeyOrder[1] :> 12) @@ (KeyOrder[2] :> 7), Nil)
          \/ Call("F1", 1, "Del", Pfx, <<KeyOrder[1]>>, <<>>, Nil)
    \/ /\ th["F2"][1].n < MaxFlights
       /\ Call("F2", 1, "Get", Pfx, <<KeyOrder[1]>>, <<>>, Nil)

InitWriters ==
    /\ regPkgKey = packageKey
    /\ regKeyOnce = FALSE
    /\ usedPrefixs = [f \in Procs |-> {Pfx}]
    /\ shared = <<>>
    /\ local = [f \in Procs |-> <<>>]
    /\ \E b \in {Both, SharedOnly} :
         configs = [f \in Procs |->
                      (Pfx :> [shared |-> TRUE,
                               local |-> IF f = "F1" THEN b.local ELSE TRUE,
                               mGetter |-> {}])]
    /\ factory = [f \in Procs |-> [sharedCache |-> TRUE, localCache |-> TRUE, pubsub |-> TRUE,
                                    closeOnce |-> "new", closes |-> 0]]
    /\ lis = [f \in Procs |-> [state |-> "starting",
                                cb |-> [e |-> NoEvent, err |-> Nil],
                                peer |-> 0, missed |-> 0, stops |-> 0, calls |-> 0]]
    /\ faults = {}
    /\ th = [f \in Procs |-> [t \in Threads |-> NoCall]]
    /\ sf = [f \in Procs |-> <<>>]
    /\ inbox = [f \in Procs |-> <<>>]
    /\ fills = [f \in Procs |-> <<>>]

NextWriters == CallWriters \/ StepsPeers \/ \E f \in Procs : Subscribe(f) \/ Listen(f)

SpecWriters == InitWriters /\ [][NextWriters]_vars

\* F1's Set, MSet or Del has returned nil after its call of the shared tier
WroteShared(s) ==
    /\ s.pc = "idle"
    /\ s.op \in {"Set", "MSet", "Del"}
    /\ s.err = Nil
    /\ \/ "shared.MSet" \in Range(CallsIn(s, "refill"))
       \/ "shared.Del" \in Range(CallsIn(s, "del"))

\* the call published an Evict
Published(s) ==
    \/ "Pub" \in Range(CallsIn(s, "refill"))
    \/ "Pub" \in Range(CallsIn(s, "del"))

\* C39, as stated: with a pub/sub configured, every Set, MSet or Del that
\* changed the shared tier and returned nil has published an Evict for its
\* keys, whether or not the prefix of the writer binds a local tier.
EveryWritePublishes ==
    (registered("F1") /\ WroteShared(th["F1"][1])) => Published(th["F1"][1])

\* what the code does: the Evict is published exactly by the writes of a
\* prefix that binds a local tier
OnlyLocalWritersPublish ==
    (registered("F1") /\ WroteShared(th["F1"][1]))
        => (Published(th["F1"][1]) <=> configs["F1"][Pfx].local)

\* F1, bound to the shared tier alone, has set the key to 12 without an
\* Evict while F2 held 7 for it in its local tier; everything is at rest,
\* and F2 still holds 7
SilentWriteLeavesPeerStale ==
    /\ ~configs["F1"][Pfx].local
    /\ WroteShared(th["F1"][1])
    /\ ~Published(th["F1"][1])
    /\ \A f \in Procs : th[f][1].pc = "idle" /\ inbox[f] = <<>> /\ lis[f].missed = 0
    /\ \A f \in Procs : lis[f].state = "subscribed"
    /\ getCacheKey(Pfx, KeyOrder[1]) \in DOMAIN shared
    /\ shared[getCacheKey(Pfx, KeyOrder[1])] = Marshal(12).b
    /\ getCacheKey(Pfx, KeyOrder[1]) \in DOMAIN local["F2"]
    /\ local["F2"][getCacheKey(Pfx, KeyOrder[1])] = Marshal(7).b

====
